---- MODULE Spec2Model ----
(***************************************************************************)
(* Model of the request dispatch engine of nulpointcorp/llm-gateway:       *)
(* the per-provider circuit breaker (internal/proxy, CircuitBreaker) and   *)
(* the failover loop (Gateway.requestWithFailover) that drives it; the     *)
(* response caches (internal/cache, MemoryCache and ExactCache) and the    *)
(* cache key (buildCacheKey); the asynchronous request logger              *)
(* (internal/logger); and the chat handler (Gateway.dispatchChat) with its *)
(* cache lookup, client key extraction and provider error mapping.         *)
(*                                                                         *)
(* Time is a discrete clock `now` counted in seconds; every time.Now() of  *)
(* the code reads it.                                                      *)
(***************************************************************************)
EXTENDS Integers, Sequences, FiniteSets, TLC

VARIABLES
    now,        \* wall clock read by time.Now()
    cfg,        \* CircuitBreaker.cfg (CBConfig)
    breakers,   \* CircuitBreaker.breakers: provider name -> providerCB
    ret,        \* the last breaker call made directly on the API and its result
    failTimes,  \* per tracked provider: times of the RecordFailure calls since the last RecordSuccess
    reqs,       \* per request slot: the locals of dispatchChat / requestWithFailover
    items,      \* MemoryCache.items: key -> memItem
    mops,       \* per goroutine using the MemoryCache: the call it is in and its locals
    mret,       \* the last MemoryCache call that returned and its result
    lastSet,    \* per key: the last Set or Delete that returned
    kin,        \* the requests handed to buildCacheKey
    kout,       \* the cache keys buildCacheKey returned for them
    lch,        \* Logger.ch: the entries queued, oldest first
    batch,      \* the batch of Logger.run
    written,    \* the entries run has written to the structured logger, in order
    droppedLogs, \* Logger.droppedLogs
    lpc,        \* where Logger.run stands: "run", "drain" or "exit"
    ldone,      \* Logger.done is closed
    logged,     \* number of Log calls made so far
    closers,    \* per caller of Logger.Close: where it stands and what the queue held when it called
    closes,     \* number of close(l.done) executed
    gopts,      \* the options the chat gateway was built with: client keys, cache backend
    chat,       \* per request slot: the locals of dispatchChat and the response written
    gcache,     \* the contents of g.cache: cache key -> entry
    answered,   \* per cache key: the last response answered 200 with X-Cache: MISS
    rpmLimit,   \* RPMLimiter.rpmLimit
    zset,       \* the sorted set under rateLimitKey in Redis: its members
    zexpire,    \* the time the key expires at (PEXPIRE), -1 while it has no expiry
    rl,         \* per request slot: where its rate limit check stands, and its outcome
    admitted,   \* per time t: how many requests stamped t were admitted
    outages,    \* how many checks found Redis unreachable
    flavor,     \* the provider whose handleStreaming produces the stream
    produced,   \* number of chunks the producer has read from the upstream stream
    ppc,        \* where the producer goroutine stands: "next", "send" or "exited"
    pending,    \* the chunk the producer is sending
    sch,        \* the stream channel: the chunks buffered, oldest first
    sent,       \* every chunk that entered the stream channel, in order
    sclosed,    \* the stream channel is closed
    scloses,    \* number of close(ch) executed
    cancelled,  \* the context of the streaming request is cancelled
    cpc,        \* where the stream writer of writeSSE stands: "range", "done" or "stopped"
    emitted,    \* the SSE events the stream writer has written, in order
    eregistry,  \* g.providers of the gateway that handles embeddings: the names registered
    emb,        \* the last embeddings request handled: what it resolved to, the Embed calls, the response
    outcomes,   \* per model: the Embed call sequences its requests have led to
    cfgMode,    \* Cache.Mode of the configuration the App was built with
    rootDone,   \* the root context of main is cancelled
    srv,        \* the fasthttp server of StartWithRoutes: listening or failed
    runpc,      \* App.Run: waiting in g.Wait() or returned
    appf,       \* the App fields Close releases: TRUE for non-nil
    callers,    \* per goroutine calling App.Close: where it is in Close
    released,   \* per resource: how many times it was released
    proc,       \* the process: running, panicked or exited
    cleanuppc,  \* MemoryCache.cleanup: running, exited or absent
    healthpc,   \* HealthChecker.run: running or exited
    probes,     \* probes HealthChecker.run has made, counted modulo MaxProbes + 1
    hlog,       \* the requests the server has answered: what the handler did, and the response
    server,     \* the HTTP server process: running or crashed
    hphase,     \* NewHealthChecker: new, probing, or ready once it has returned
    hstatus,    \* per component: the status field of its componentStatus
    hpending,   \* the probe goroutines of the current probe that have not set their status
    sread,      \* the Snapshot under way: per component the status it read, or unread
    hsnap,      \* the last HealthSnapshot returned
    gauge,      \* per provider: the circuit breaker state gauge of the metrics registry
    gq,         \* per request slot: where its failover call is, and the state it read for the gauge
    hs,         \* the chat request in dispatchChat: where the handler is, what cancelled the provider context, whether onComplete ran
    inflight,   \* the in-flight gauge of the metrics registry
    loggerSet,  \* g.reqLogger of the chat gateway is set
    lastEntry,  \* the last entry logRequest handed to the logger, with the status written to the client for that request
    mu,         \* the locks cb.mu, pcb.mu of each provider and c.mu: the goroutine holding it for writing and those holding it for reading
    lt          \* each goroutine's position in its calls of the cache and of the breaker

gatewayVars == <<cfg, breakers, ret, failTimes, reqs>>

memVars == <<items, mops, mret, lastSet>>

keyVars == <<kin, kout>>

\* Everything that is not state of the breaker and the failover loop, of
\* the in-process cache, of the cache key computation, of the request logger,
\* of dispatchChat with its cache.
logVars == <<lch, batch, written, droppedLogs, lpc, ldone, logged, closers, closes>>

chatVars == <<gopts, chat, gcache, answered>>

rpmVars == <<rpmLimit, zset, zexpire, rl, admitted, outages>>

streamVars == <<flavor, produced, ppc, pending, sch, sent, sclosed, scloses, cancelled, cpc, emitted>>

embedVars == <<eregistry, emb, outcomes>>

appVars == <<cfgMode, rootDone, srv, runpc, appf, callers, released, proc, cleanuppc, healthpc, probes>>

recoverVars == <<hlog, server>>

healthVars == <<hphase, hstatus, hpending, sread, hsnap>>

gaugeVars == <<gauge, gq>>

handlerVars == <<hs, inflight>>

chatLogVars == <<loggerSet, lastEntry>>

lockVars == <<mu, lt>>

\* The state of the parts around the request path.
peripheralVars == <<rpmVars, streamVars, embedVars, appVars, recoverVars, healthVars, gaugeVars, handlerVars, chatLogVars, lockVars>>

outsideGateway == <<memVars, keyVars, logVars, chatVars, peripheralVars>>

outsideMem == <<gatewayVars, keyVars, logVars, chatVars, peripheralVars>>

outsideKey == <<gatewayVars, memVars, logVars, chatVars, peripheralVars>>

outsideLog == <<gatewayVars, memVars, keyVars, chatVars, peripheralVars>>

outsideChat == <<gatewayVars, memVars, keyVars, logVars, peripheralVars>>

outsideRPM == <<gatewayVars, memVars, keyVars, logVars, chatVars, streamVars, embedVars, appVars, recoverVars, healthVars, gaugeVars, handlerVars, chatLogVars, lockVars>>

outsideStream == <<gatewayVars, memVars, keyVars, logVars, chatVars, rpmVars, embedVars, appVars, recoverVars, healthVars, gaugeVars, handlerVars, chatLogVars, lockVars>>

outsideEmbed == <<gatewayVars, memVars, keyVars, logVars, chatVars, rpmVars, streamVars, appVars, recoverVars, healthVars, gaugeVars, handlerVars, chatLogVars, lockVars>>

outsideApp == <<gatewayVars, memVars, keyVars, logVars, chatVars, rpmVars, streamVars, embedVars, recoverVars, healthVars, gaugeVars, handlerVars, chatLogVars, lockVars>>

outsideRecover == <<gatewayVars, memVars, keyVars, logVars, chatVars, rpmVars, streamVars, embedVars, appVars, healthVars, gaugeVars, handlerVars, chatLogVars, lockVars>>

outsideHealth == <<gatewayVars, memVars, keyVars, logVars, chatVars, rpmVars, streamVars, embedVars, appVars, recoverVars, gaugeVars, handlerVars, chatLogVars, lockVars>>

outsideGauge == <<gatewayVars, memVars, keyVars, logVars, chatVars, rpmVars, streamVars, embedVars, appVars, recoverVars, healthVars, handlerVars, chatLogVars, lockVars>>

outsideHandler == <<gatewayVars, memVars, keyVars, logVars, chatVars, rpmVars, streamVars, embedVars, appVars, recoverVars, healthVars, gaugeVars, chatLogVars, lockVars>>

outsideChatLog == <<gatewayVars, memVars, keyVars, logVars, chatVars, rpmVars, streamVars, embedVars, appVars, recoverVars, healthVars, gaugeVars, handlerVars, lockVars>>

outsideLock == <<gatewayVars, memVars, keyVars, logVars, chatVars, rpmVars, streamVars, embedVars, appVars, recoverVars, healthVars, gaugeVars, handlerVars, chatLogVars>>

vars == <<now, gatewayVars, memVars, keyVars, logVars, chatVars, peripheralVars>>

----------------------------------------------------------------------------
\* Bounds of the model.

MaxTime == 2            \* the clock of the gateway stops here
MaxTimeCB == 3          \* the clock of the breaker driven alone stops here
MaxErrorCount == 3      \* cap on providerCB.errorCount
MaxThreshold == 2       \* largest configured ErrorThreshold
MaxWindow == 2          \* largest configured TimeWindow
MaxHalfOpen == 2        \* largest configured HalfOpenTimeout
OptsMaxRetries == 2     \* GatewayOptions.MaxRetries
OptsProviderTimeout == 1 \* GatewayOptions.ProviderTimeout
MaxTimeMem == 3         \* the clock of the in-process cache used alone stops here
MaxTTL == 2             \* largest ttl handed to MemoryCache.Set
MaxTemperature == 5     \* largest temperature of a request, in thousandths
MaxMaxTokens == 1       \* largest max_tokens of a request
channelBuffer == 2      \* capacity of Logger.ch (10_000 in the code)
batchSize == 2          \* entries per batch of Logger.run (100 in the code)
MaxLogged == 5          \* number of Log calls in a burst
MaxTimeChat == 2        \* the clock of the chat gateway handling one request at a time stops here
MaxTimeChatConc == 2    \* the clock of the chat gateway handling two requests stops here
OptsCacheTTL == 1       \* GatewayOptions.CacheTTL
window == 2             \* the window of the rate limiter (time.Minute in the code)
MaxRPM == 2             \* largest configured RPM limit
MaxTimeRPM == 3         \* the clock of the rate limiter stops here
MaxAdmitted == 4        \* number of requests the rate limiter admits
StreamBuffer == 1       \* capacity of the stream channel (64 in the code)
MaxChunks == 3          \* number of chunks of the upstream stream
MaxCloseCalls == 2  \* App.Close calls made by the other holder of the App
MaxProbes == 2  \* the probe count of the health checker loop wraps after this many
MaxServed == 3  \* requests the server answers

----------------------------------------------------------------------------
\* Program constants.

cbClosed == 0
cbOpen == 1
cbHalfOpen == 2

CBErrorThreshold == 5
CBTimeWindow == 60
CBHalfOpenTimeout == 30
MaxRetries == 3
ProviderTimeout == 30

\* providers.DefaultFallbackOrder, cut to its first three entries.
DefaultFallbackOrder == <<"openai", "anthropic", "gemini">>

\* The providers the breaker tracks: one providerCB per default provider.
Tracked == {DefaultFallbackOrder[i] : i \in DOMAIN DefaultFallbackOrder}

\* Provider names a model can resolve to; "deepseek" is an alias target
\* that is not part of the default fallback order.
Names == Tracked \cup {"deepseek"}

\* g.providers: the registry of configured providers ("anthropic" has no key).
Registered == {"deepseek", "openai", "gemini"}

----------------------------------------------------------------------------
\* CBConfig accessors: zero values fall back to the package defaults.

errorThreshold(c) == IF c.ErrorThreshold > 0 THEN c.ErrorThreshold ELSE CBErrorThreshold

timeWindow(c) == IF c.TimeWindow > 0 THEN c.TimeWindow ELSE CBTimeWindow

halfOpenTimeout(c) == IF c.HalfOpenTimeout > 0 THEN c.HalfOpenTimeout ELSE CBHalfOpenTimeout

\* NewCircuitBreakerWithConfig: every default provider starts Closed with
\* windowStart = now; openedAt is the zero time and is read only when Open.
NewCircuitBreakerWithConfig(t) ==
    [p \in Tracked |->
        [state |-> cbClosed, errorCount |-> 0, windowStart |-> t,
         openedAt |-> 0, probeInflight |-> FALSE]]

\* CircuitBreaker.get: is there a providerCB for the name.
get(provider) == provider \in DOMAIN breakers

\* Allow without the probeInflight test of the HalfOpen case.
Allow_everyHalfOpenAdmits(provider) ==
    IF ~get(provider) THEN [ret |-> TRUE, tracked |-> FALSE]
    ELSE LET pcb == breakers[provider] IN
      CASE pcb.state = cbClosed -> [ret |-> TRUE, tracked |-> TRUE, pcb |-> pcb]
        [] pcb.state = cbOpen ->
             IF now - pcb.openedAt >= halfOpenTimeout(cfg)
             THEN [ret |-> TRUE, tracked |-> TRUE,
                   pcb |-> [pcb EXCEPT !.state = cbHalfOpen, !.probeInflight = TRUE]]
             ELSE [ret |-> FALSE, tracked |-> TRUE, pcb |-> pcb]
        [] OTHER -> [ret |-> TRUE, tracked |-> TRUE,
                     pcb |-> [pcb EXCEPT !.probeInflight = TRUE]]

\* CircuitBreaker.Allow: the value returned and the providerCB it leaves.
Allow(provider) ==
    IF ~get(provider) THEN [ret |-> TRUE, tracked |-> FALSE]
    ELSE LET pcb == breakers[provider] IN
      CASE pcb.state = cbClosed -> [ret |-> TRUE, tracked |-> TRUE, pcb |-> pcb]
        [] pcb.state = cbOpen ->
             IF now - pcb.openedAt >= halfOpenTimeout(cfg)
             THEN [ret |-> TRUE, tracked |-> TRUE,
                   pcb |-> [pcb EXCEPT !.state = cbHalfOpen, !.probeInflight = TRUE]]
             ELSE [ret |-> FALSE, tracked |-> TRUE, pcb |-> pcb]
        [] pcb.state = cbHalfOpen ->
             IF pcb.probeInflight
             THEN [ret |-> FALSE, tracked |-> TRUE, pcb |-> pcb]
             ELSE [ret |-> TRUE, tracked |-> TRUE,
                   pcb |-> [pcb EXCEPT !.probeInflight = TRUE]]
        [] OTHER -> [ret |-> TRUE, tracked |-> TRUE, pcb |-> pcb]

\* RecordSuccess that resets the counters and leaves the state as it is.
RecordSuccess_keepsState(provider) ==
    IF ~get(provider) THEN [tracked |-> FALSE]
    ELSE [tracked |-> TRUE,
          pcb |-> [breakers[provider] EXCEPT
                      !.errorCount = 0, !.probeInflight = FALSE, !.windowStart = now]]

\* CircuitBreaker.RecordSuccess: the providerCB it leaves.
RecordSuccess(provider) ==
    IF ~get(provider) THEN [tracked |-> FALSE]
    ELSE [tracked |-> TRUE,
          pcb |-> [breakers[provider] EXCEPT
                      !.state = cbClosed, !.errorCount = 0,
                      !.probeInflight = FALSE, !.windowStart = now]]

\* CircuitBreaker.RecordFailure: the providerCB it leaves.
RecordFailure(provider) ==
    IF ~get(provider) THEN [tracked |-> FALSE]
    ELSE LET pcb == breakers[provider]
             expired == now - pcb.windowStart > timeWindow(cfg)
             count == (IF expired THEN 0 ELSE pcb.errorCount) + 1
             ws == IF expired THEN now ELSE pcb.windowStart
             trip == count >= errorThreshold(cfg)
         IN [tracked |-> TRUE,
             pcb |-> [state |-> IF trip THEN cbOpen ELSE pcb.state,
                      errorCount |-> count,
                      windowStart |-> ws,
                      openedAt |-> IF trip THEN now ELSE pcb.openedAt,
                      probeInflight |-> FALSE]]

\* CircuitBreaker.State
State(provider) == IF ~get(provider) THEN cbClosed ELSE breakers[provider].state

\* The breaker map after a call left `r` for `provider`.
store(provider, r) ==
    IF r.tracked THEN [breakers EXCEPT ![provider] = r.pcb] ELSE breakers

\* RecordFailure may run while the counter is below the cap of the model.
belowCap(provider) ==
    IF get(provider) THEN breakers[provider].errorCount < MaxErrorCount ELSE TRUE

\* The failure times kept for `provider` after one more RecordFailure: the
\* last errorThreshold(cfg) calls since the last RecordSuccess.
lastN(s, n) == IF Len(s) <= n THEN s ELSE SubSeq(s, Len(s) - n + 1, Len(s))

noteFailure(provider) ==
    IF provider \in DOMAIN failTimes
    THEN [failTimes EXCEPT ![provider] = lastN(Append(@, now), errorThreshold(cfg))]
    ELSE failTimes

noteSuccess(provider) ==
    IF provider \in DOMAIN failTimes
    THEN [failTimes EXCEPT ![provider] = <<>>]
    ELSE failTimes

----------------------------------------------------------------------------
\* The in-process cache (internal/cache, MemoryCache) as NewMemoryCache
\* leaves it.

\* time.Hour, the ttl Set uses for a zero or negative ttl, in seconds.
Hour == 3600

MemKeys == {"k1"}

MemValues == {"a", "b"}

\* The goroutines that call Get, Set and Delete, and the cleanup goroutine.
MemCallers == {"g1", "g2"}

Cleanup == "cleanup"

\* A key that is not in the map, and the memItem of a key that is.
NoItem == [present |-> FALSE, data |-> "", expiresAt |-> 0]

memItem(data, expiresAt) == [present |-> TRUE, data |-> data, expiresAt |-> expiresAt]

\* A goroutine outside any MemoryCache call.
idleOp == [pc |-> "idle", key |-> "", item |-> NoItem, at |-> 0, fresh |-> FALSE]

NoSet == [valid |-> FALSE, data |-> "", until |-> 0]

memInit ==
    /\ items = [k \in MemKeys |-> NoItem]
    /\ mops = [g \in MemCallers \cup {Cleanup} |-> idleOp]
    /\ mret = [op |-> "New", key |-> "", data |-> "", ok |-> FALSE, expiresAt |-> 0]
    /\ lastSet = [k \in MemKeys |-> NoSet]

\* No cache key computed.
keyInit ==
    /\ kin = <<>>
    /\ kout = <<>>

\* The goroutines that call Logger.Close.
Closers == {"c1", "c2"}

\* A goroutine that has not called Close.
idleCloser == [pc |-> "idle", queued |-> {}, running |-> FALSE]

\* logger.New: empty queue and batch, run started.
logInit ==
    /\ lch = <<>>
    /\ batch = <<>>
    /\ written = <<>>
    /\ droppedLogs = 0
    /\ lpc = "run"
    /\ ldone = FALSE
    /\ logged = 0
    /\ closers = [c \in Closers |-> idleCloser]
    /\ closes = 0

\* No chat request handled and no cache configured.
chatInit ==
    /\ gopts = [AllowClientAPIKeys |-> FALSE, cache |-> "none"]
    /\ chat = <<>>
    /\ gcache = <<>>
    /\ answered = <<>>

\* No rate limiter configured.
rpmInit ==
    /\ rpmLimit = 0
    /\ zset = {}
    /\ zexpire = -1
    /\ rl = <<>>
    /\ admitted = <<>>
    /\ outages = 0

\* No streaming response.
streamInit ==
    /\ flavor = ""
    /\ produced = 0
    /\ ppc = "exited"
    /\ pending = <<>>
    /\ sch = <<>>
    /\ sent = <<>>
    /\ sclosed = FALSE
    /\ scloses = 0
    /\ cancelled = FALSE
    /\ cpc = "stopped"
    /\ emitted = <<>>

\* No embeddings request handled.
embedInit ==
    /\ eregistry = {}
    /\ emb = <<>>
    /\ outcomes = <<>>

\* No process started.
appInit ==
    /\ cfgMode = "none"
    /\ rootDone = FALSE
    /\ srv = ""
    /\ runpc = ""
    /\ appf = <<>>
    /\ callers = <<>>
    /\ released = <<>>
    /\ proc = ""
    /\ cleanuppc = ""
    /\ healthpc = ""
    /\ probes = 0

\* No request served.
recoverInit ==
    /\ hlog = <<>>
    /\ server = ""

\* No health checker built.
healthInit ==
    /\ hphase = ""
    /\ hstatus = <<>>
    /\ hpending = {}
    /\ sread = <<>>
    /\ hsnap = <<>>

\* No gauge exported.
gaugeInit ==
    /\ gauge = <<>>
    /\ gq = <<>>

\* No chat request in the handler.
handlerInit ==
    /\ hs = <<>>
    /\ inflight = 0

\* No request logged.
chatLogInit ==
    /\ loggerSet = FALSE
    /\ lastEntry = <<>>

\* The candidates of requestWithFailover, in order.
LockCandidates == <<"openai", "anthropic">>

\* pcb.mu of a provider goes by the provider's name.
Mutexes == {"c.mu", "cb.mu"} \cup {LockCandidates[i] : i \in 1..Len(LockCandidates)}

RequestThreads == {"r1", "r2"}

Threads == RequestThreads \cup {"cleanup"}

\* sync.RWMutex, nobody holding it (a sync.Mutex has no readers).
unlocked == [writer |-> "", readers |-> {}]

idleThread == [pc |-> "idle", op |-> "", i |-> 1, eligible |-> FALSE, ok |-> FALSE, n |-> 0]

\* No lock held, every goroutine idle.
lockInit ==
    /\ mu = [m \in Mutexes |-> unlocked]
    /\ lt = [t \in Threads |-> idleThread]

peripheralInit == rpmInit /\ streamInit /\ embedInit /\ appInit /\ recoverInit /\ healthInit /\ gaugeInit /\ handlerInit /\ chatLogInit /\ lockInit

outsideGatewayInit == memInit /\ keyInit /\ logInit /\ chatInit /\ peripheralInit

----------------------------------------------------------------------------
\* The breaker driven directly through its API, as the unit tests do:
\* any sequence of Allow / RecordSuccess / RecordFailure calls at any times.

\* Configurations a breaker is built with; 0 selects the package default.
CfgChoices ==
    [ErrorThreshold : 0..MaxThreshold, TimeWindow : 0..MaxWindow,
     HalfOpenTimeout : 0..MaxHalfOpen]

\* The names the calls are made for: a tracked and an untracked provider.
CBNames == {"openai", "deepseek"}

\* Errors a provider attempt can end with.
noErr == [kind |-> "nil", status |-> 0]
errTimeout == [kind |-> "timeout", status |-> 0]
errUnknown == [kind |-> "unknown", status |-> 0]
errNoProviders == [kind |-> "no providers available", status |-> 0]
Statuses == {401, 429, 500}
statusErr(code) == [kind |-> "status", status |-> code]
Errors == {errTimeout, errUnknown} \cup {statusErr(c) : c \in Statuses}

\* A request slot that holds no request.
idleReq ==
    [pc |-> "idle", primary |-> "", candidates |-> <<>>, idx |-> 0, attempts |-> 0,
     err |-> noErr, lastErr |-> noErr, deadline |-> 0, asProbe |-> FALSE, calls |-> <<>>,
     result |-> [ok |-> FALSE, provider |-> "", cause |-> noErr]]

\* The request slots: each holds one request, handled on its own goroutine.
Reqs == {1, 2}

InitCB ==
    /\ now = 0
    /\ cfg \in CfgChoices
    /\ breakers = NewCircuitBreakerWithConfig(0)
    /\ ret = [op |-> "New", provider |-> "", value |-> TRUE]
    /\ failTimes = [p \in Tracked |-> <<>>]
    /\ reqs = [r \in Reqs |-> idleReq]
    /\ outsideGatewayInit

\* time passes
Tick(limit) ==
    /\ now < limit
    /\ now' = now + 1
    /\ UNCHANGED <<cfg, breakers, ret, failTimes, reqs, outsideGateway>>

CallAllow(p) ==
    /\ breakers' = store(p, Allow(p))
    /\ ret' = [op |-> "Allow", provider |-> p, value |-> Allow(p).ret]
    /\ UNCHANGED <<now, cfg, failTimes, reqs, outsideGateway>>

CallRecordSuccess(p) ==
    /\ breakers' = store(p, RecordSuccess(p))
    /\ ret' = [op |-> "RecordSuccess", provider |-> p, value |-> TRUE]
    /\ failTimes' = noteSuccess(p)
    /\ UNCHANGED <<now, cfg, reqs, outsideGateway>>

\* RecordFailure that charges an unknown name to the first default provider.
CallRecordFailure_chargesFirst(p) ==
    LET q == IF get(p) THEN p ELSE DefaultFallbackOrder[1] IN
    /\ belowCap(q)
    /\ breakers' = store(q, RecordFailure(q))
    /\ ret' = [op |-> "RecordFailure", provider |-> p, value |-> TRUE]
    /\ failTimes' = noteFailure(q)
    /\ UNCHANGED <<now, cfg, reqs, outsideGateway>>

CallRecordFailure(p) ==
    /\ belowCap(p)
    /\ breakers' = store(p, RecordFailure(p))
    /\ ret' = [op |-> "RecordFailure", provider |-> p, value |-> TRUE]
    /\ failTimes' = noteFailure(p)
    /\ UNCHANGED <<now, cfg, reqs, outsideGateway>>

NextCB ==
    \/ Tick(MaxTimeCB)
    \/ \E p \in CBNames : CallAllow(p)
    \/ \E p \in CBNames : CallRecordSuccess(p)
    \/ \E p \in CBNames : CallRecordFailure(p)

SpecCB == InitCB /\ [][NextCB]_vars

----------------------------------------------------------------------------
\* The gateway: requests running dispatchChat and the failover loop against
\* the shared breaker, one after another (Spec) or two at a time (SpecConc).

\* NewGatewayWithOptions: options below their minimum select the defaults.
maxRetries == IF OptsMaxRetries < 1 THEN MaxRetries ELSE OptsMaxRetries

providerTimeout == IF OptsProviderTimeout <= 0 THEN ProviderTimeout ELSE OptsProviderTimeout

\* buildCandidateList: the loop over DefaultFallbackOrder with its seen map.
RECURSIVE appendUnseen(_, _, _)
appendUnseen(out, seen, i) ==
    IF i > Len(DefaultFallbackOrder) THEN out
    ELSE LET name == DefaultFallbackOrder[i] IN
         IF name \in seen THEN appendUnseen(out, seen, i + 1)
         ELSE appendUnseen(Append(out, name), seen \cup {name}, i + 1)

\* buildCandidateList that does not mark the primary as seen.
buildCandidateList_primaryUnseen(primary) == appendUnseen(<<primary>>, {}, 1)

buildCandidateList(primary) == appendUnseen(<<primary>>, {primary}, 1)

\* isRetryable that also retries a 429.
isRetryable_retries429(err) ==
    IF err = errTimeout THEN TRUE
    ELSE IF err.kind = "status"
         THEN err.status = 429 \/ (err.status >= 500 /\ err.status < 600)
    ELSE TRUE

\* isRetryable whose default for errors without a status is false.
isRetryable_unknownFinal(err) ==
    IF err = errTimeout THEN TRUE
    ELSE IF err.kind = "status" THEN err.status >= 500 /\ err.status < 600
    ELSE FALSE

\* isRetryable
isRetryable(err) ==
    IF err = errTimeout THEN TRUE
    ELSE IF err.kind = "status" THEN err.status >= 500 /\ err.status < 600
    ELSE TRUE

\* resolveProvider: the provider a model name resolves to.
Primaries == Names

\* Breaker configurations the gateway runs with.
GatewayCfgs ==
    {[ErrorThreshold |-> e, TimeWindow |-> w, HalfOpenTimeout |-> 1] :
        e \in 1..MaxThreshold, w \in 1..MaxWindow}

\* The slot that serves requests one after another.
Serial == {1}

\* Concurrent traffic: both slots carry requests for "openai" models whose
\* upstream either answers or fails with a 500, under one breaker configuration.
ConcPrimaries == {"openai"}

ConcErrors == {statusErr(500)}

ConcCfg == [ErrorThreshold |-> 2, TimeWindow |-> 1, HalfOpenTimeout |-> 1]

\* The candidate the loop of request r is at.
name(r) == reqs[r].candidates[reqs[r].idx]

\* requestWithFailover returns `result`: its candidate list, loop position
\* and lastErr and the provider context go out of scope; the count of
\* attempts, the provider calls made and the outcome of the last call stay
\* on record.
returned(q, result) ==
    [q EXCEPT !.pc = "done", !.candidates = <<>>, !.idx = 0, !.deadline = 0,
              !.lastErr = noErr, !.asProbe = FALSE, !.result = result]

\* The head of the loop, run until the loop stands at a configured candidate
\* it may ask the breaker about, or ends: the budget check, the skip of
\* candidates missing from g.providers, and the error returned after the loop.
\* The loop head with the budget test off by one (attempts > maxRetries).
RECURSIVE loopHead_offByOne(_)
loopHead_offByOne(q) ==
    LET cands == q.candidates IN
    IF q.idx > Len(cands) \/ q.attempts > maxRetries
    THEN returned(q, [ok |-> FALSE, provider |-> "",
                      cause |-> IF q.lastErr = noErr THEN errNoProviders ELSE q.lastErr])
    ELSE IF cands[q.idx] \notin Registered
    THEN loopHead_offByOne([q EXCEPT !.idx = @ + 1])
    ELSE q

RECURSIVE loopHead(_)
loopHead(q) ==
    LET cands == q.candidates IN
    IF q.idx > Len(cands) \/ q.attempts >= maxRetries
    THEN returned(q, [ok |-> FALSE, provider |-> "",
                      cause |-> IF q.lastErr = noErr THEN errNoProviders ELSE q.lastErr])
    ELSE IF cands[q.idx] \notin Registered
    THEN loopHead([q EXCEPT !.idx = @ + 1])
    ELSE q

Init ==
    /\ now = 0
    /\ cfg \in GatewayCfgs
    /\ breakers = NewCircuitBreakerWithConfig(0)
    /\ ret = [op |-> "New", provider |-> "", value |-> TRUE]
    /\ failTimes = [p \in Tracked |-> <<>>]
    /\ reqs = [r \in Reqs |-> idleReq]
    /\ outsideGatewayInit

\* dispatchChat up to the failover call: the provider context gets its
\* deadline and the loop starts at the first candidate.
Dispatch(r, primary) ==
    /\ reqs[r].pc = "idle"
    /\ reqs' = [reqs EXCEPT ![r] =
                    loopHead([idleReq EXCEPT !.pc = "loop", !.primary = primary,
                                             !.candidates = buildCandidateList(primary),
                                             !.idx = 1,
                                             !.deadline = now + providerTimeout])]
    /\ UNCHANGED <<now, cfg, breakers, ret, failTimes, outsideGateway>>

\* The breaker refuses the candidate: continue.
BreakerDeny(r) ==
    /\ reqs[r].pc = "loop"
    /\ ~Allow(name(r)).ret
    /\ breakers' = store(name(r), Allow(name(r)))
    /\ reqs' = [reqs EXCEPT ![r] = loopHead([@ EXCEPT !.idx = @ + 1])]
    /\ UNCHANGED <<now, cfg, ret, failTimes, outsideGateway>>

\* The breaker admits the candidate and prov.Request is invoked.
StartAttempt(r) ==
    /\ reqs[r].pc = "loop"
    /\ Allow(name(r)).ret
    /\ breakers' = store(name(r), Allow(name(r)))
    /\ reqs' = [reqs EXCEPT ![r].pc = "call",
                            ![r].calls = Append(@, name(r)),
                            ![r].asProbe = State(name(r)) # cbClosed]
    /\ UNCHANGED <<now, cfg, ret, failTimes, outsideGateway>>

\* prov.Request returns a response: RecordSuccess, return it with the name.
AttemptSucceeds(r) ==
    /\ reqs[r].pc = "call"
    /\ breakers' = store(name(r), RecordSuccess(name(r)))
    /\ reqs' = [reqs EXCEPT ![r] =
                    returned([@ EXCEPT !.attempts = @ + 1, !.err = noErr],
                             [ok |-> TRUE, provider |-> name(r), cause |-> noErr])]
    /\ UNCHANGED <<now, cfg, ret, failTimes, outsideGateway>>

\* prov.Request returns err: RecordFailure, then break on a non-retryable
\* error or go on with the next candidate.  context.DeadlineExceeded is what
\* the provider returns once the deadline of its context has passed.
AttemptFails(r, err) ==
    /\ reqs[r].pc = "call"
    /\ err = errTimeout => now >= reqs[r].deadline
    /\ belowCap(name(r))
    /\ breakers' = store(name(r), RecordFailure(name(r)))
    /\ reqs' = [reqs EXCEPT ![r] =
                    IF isRetryable(err)
                    THEN loopHead([@ EXCEPT !.pc = "loop", !.attempts = @ + 1,
                                            !.asProbe = FALSE, !.err = err,
                                            !.lastErr = err, !.idx = @ + 1])
                    ELSE returned([@ EXCEPT !.attempts = @ + 1, !.err = err, !.lastErr = err],
                                  [ok |-> FALSE, provider |-> "", cause |-> err])]
    /\ UNCHANGED <<now, cfg, ret, failTimes, outsideGateway>>

\* The response is written and the slot is free for the next request.
Respond(r) ==
    /\ reqs[r].pc = "done"
    /\ reqs' = [reqs EXCEPT ![r] = idleReq]
    /\ UNCHANGED <<now, cfg, breakers, ret, failTimes, outsideGateway>>

Next ==
    \/ Tick(MaxTime)
    \/ \E r \in Serial : \E primary \in Primaries : Dispatch(r, primary)
    \/ \E r \in Serial : BreakerDeny(r)
    \/ \E r \in Serial : StartAttempt(r)
    \/ \E r \in Serial : AttemptSucceeds(r)
    \/ \E r \in Serial : \E err \in Errors : AttemptFails(r, err)
    \/ \E r \in Serial : Respond(r)

Spec == Init /\ [][Next]_vars

InitConc ==
    /\ now = 0
    /\ cfg = ConcCfg
    /\ breakers = NewCircuitBreakerWithConfig(0)
    /\ ret = [op |-> "New", provider |-> "", value |-> TRUE]
    /\ failTimes = [p \in Tracked |-> <<>>]
    /\ reqs = [r \in Reqs |-> idleReq]
    /\ outsideGatewayInit

NextConc ==
    \/ Tick(MaxTime)
    \/ \E r \in Reqs : \E primary \in ConcPrimaries : Dispatch(r, primary)
    \/ \E r \in Reqs : BreakerDeny(r)
    \/ \E r \in Reqs : StartAttempt(r)
    \/ \E r \in Reqs : AttemptSucceeds(r)
    \/ \E r \in Reqs : \E err \in ConcErrors : AttemptFails(r, err)
    \/ \E r \in Reqs : Respond(r)

SpecConc == InitConc /\ [][NextConc]_vars

----------------------------------------------------------------------------
\* The in-process cache used by concurrent goroutines: any interleaving of
\* Get, Set and Delete calls and of the sweeps of the cleanup goroutine.

\* The breaker and the gateway as constructed, with no request handled.
gatewayIdle ==
    /\ cfg = ConcCfg
    /\ breakers = NewCircuitBreakerWithConfig(0)
    /\ ret = [op |-> "New", provider |-> "", value |-> TRUE]
    /\ failTimes = [p \in Tracked |-> <<>>]
    /\ reqs = [r \in Reqs |-> idleReq]

\* A Set or Delete of `key` returned: the Gets of that key still running
\* were issued before it.
staled(key) ==
    [g \in DOMAIN mops |->
        IF mops[g].key = key THEN [mops[g] EXCEPT !.fresh = FALSE] ELSE mops[g]]

\* Get, first part: the map read under the read lock.
GetRead(g, key) ==
    /\ mops[g].pc = "idle"
    /\ mops' = [mops EXCEPT ![g] = [pc |-> "got", key |-> key, item |-> items[key],
                                    at |-> 0, fresh |-> lastSet[key].valid]]
    /\ UNCHANGED <<now, items, mret, lastSet, outsideMem>>

\* Get that returns whatever the map holds, expired or not.
GetCheck_noExpiry(g) ==
    /\ mops[g].pc = "got"
    /\ LET item == mops[g].item IN
       /\ mops' = [mops EXCEPT ![g] = idleOp]
       /\ mret' = [op |-> "Get", key |-> mops[g].key, data |-> item.data,
                   ok |-> item.present, expiresAt |-> item.expiresAt]
    /\ UNCHANGED <<now, items, lastSet, outsideMem>>

\* Get, second part: the miss on an absent key, the expiry test against
\* time.Now(), the hit.
GetCheck(g) ==
    /\ mops[g].pc = "got"
    /\ LET item == mops[g].item IN
       IF ~item.present
       THEN /\ mops' = [mops EXCEPT ![g] = idleOp]
            /\ mret' = [op |-> "Get", key |-> mops[g].key, data |-> "", ok |-> FALSE,
                        expiresAt |-> 0]
       ELSE IF now > item.expiresAt
       THEN /\ mops' = [mops EXCEPT ![g].pc = "del"]
            /\ mret' = mret
       ELSE /\ mops' = [mops EXCEPT ![g] = idleOp]
            /\ mret' = [op |-> "Get", key |-> mops[g].key, data |-> item.data, ok |-> TRUE,
                        expiresAt |-> item.expiresAt]
    /\ UNCHANGED <<now, items, lastSet, outsideMem>>

\* Get, third part: the lazy removal under the write lock, then the miss.
GetDelete(g) ==
    /\ mops[g].pc = "del"
    /\ items' = [items EXCEPT ![mops[g].key] = NoItem]
    /\ mops' = [mops EXCEPT ![g] = idleOp]
    /\ mret' = [op |-> "Get", key |-> mops[g].key, data |-> "", ok |-> FALSE,
                expiresAt |-> mops[g].item.expiresAt]
    /\ UNCHANGED <<now, lastSet, outsideMem>>

\* Set: the ttl floor, then the store under the write lock.
MemSet(g, key, value, ttl) ==
    /\ mops[g].pc = "idle"
    /\ LET t == IF ttl <= 0 THEN Hour ELSE ttl IN
       items' = [items EXCEPT ![key] = memItem(value, now + t)]
    /\ mops' = staled(key)
    /\ mret' = [op |-> "Set", key |-> key, data |-> value, ok |-> TRUE, expiresAt |-> 0]
    /\ lastSet' = [lastSet EXCEPT ![key] = [valid |-> TRUE, data |-> value, until |-> now + ttl]]
    /\ UNCHANGED <<now, outsideMem>>

\* Delete
MemDelete(g, key) ==
    /\ mops[g].pc = "idle"
    /\ items' = [items EXCEPT ![key] = NoItem]
    /\ mops' = staled(key)
    /\ mret' = [op |-> "Delete", key |-> key, data |-> "", ok |-> TRUE, expiresAt |-> 0]
    /\ lastSet' = [lastSet EXCEPT ![key] = NoSet]
    /\ UNCHANGED <<now, outsideMem>>

\* cleanup: the ticker fires and evictExpired reads the clock.
EvictStart ==
    /\ mops[Cleanup].pc = "idle"
    /\ mops' = [mops EXCEPT ![Cleanup] = [idleOp EXCEPT !.pc = "sweep", !.at = now]]
    /\ UNCHANGED <<now, items, mret, lastSet, outsideMem>>

\* evictExpired: the sweep under the write lock.
EvictSweep ==
    /\ mops[Cleanup].pc = "sweep"
    /\ items' = [k \in MemKeys |->
                    IF items[k].present /\ mops[Cleanup].at > items[k].expiresAt
                    THEN NoItem ELSE items[k]]
    /\ mops' = [mops EXCEPT ![Cleanup] = idleOp]
    /\ UNCHANGED <<now, mret, lastSet, outsideMem>>

InitMem ==
    /\ now = 0
    /\ gatewayIdle
    /\ memInit
    /\ keyInit
    /\ logInit
    /\ chatInit
    /\ peripheralInit

NextMem ==
    \/ Tick(MaxTimeMem)
    \/ \E g \in MemCallers : \E key \in MemKeys : GetRead(g, key)
    \/ \E g \in MemCallers : GetCheck(g)
    \/ \E g \in MemCallers : GetDelete(g)
    \/ \E g \in MemCallers : \E key \in MemKeys : \E value \in MemValues :
            \E ttl \in 0..MaxTTL : MemSet(g, key, value, ttl)
    \/ \E g \in MemCallers : \E key \in MemKeys : MemDelete(g, key)
    \/ EvictStart
    \/ EvictSweep

SpecMem == InitMem /\ [][NextMem]_vars

----------------------------------------------------------------------------
\* buildCacheKey applied to pairs of normalized requests.

\* providers.ModelAliases, cut to two entries.
ModelAliases == [m \in {"gpt-4o", "claude-3-5-sonnet"} |->
                    IF m = "gpt-4o" THEN "openai" ELSE "anthropic"]

\* Model names of requests: two aliased ones and one no alias knows.
Models == {"gpt-4o", "claude-3-5-sonnet", "my-model"}

resolveProvider(model) ==
    IF model \in DOMAIN ModelAliases THEN ModelAliases[model] ELSE "openai"

\* fmt.Sprintf("%.2f", t) of a temperature given in thousandths: the
\* number of hundredths nearest to it.
fmtTemperature(t) == (t + 5) \div 10

\* The message lists of requests.
MessageLists ==
    {<<[Role |-> "user", Content |-> "hi"]>>,
     <<[Role |-> "system", Content |-> "hi"], [Role |-> "user", Content |-> "hi"]>>}

\* providers.ProxyRequest, the fields buildCacheKey reads.
ProxyRequests ==
    [Model : Models, Messages : MessageLists, Temperature : 0..MaxTemperature,
     MaxTokens : 0..MaxMaxTokens, WorkspaceID : {"", "ws-1"}, APIKeyID : {"", "id-A"}]

\* sha256.Sum256 and hex.EncodeToString: one digest per input (no collisions).
sha256Hex(data) == [sha256 |-> data]

\* buildCacheKey that leaves the api key id out of the hashed struct.
buildCacheKey_noKeyID(req) ==
    <<"cache:",
      sha256Hex([w |-> req.WorkspaceID, k |-> "", p |-> resolveProvider(req.Model),
                 m |-> req.Model, t |-> fmtTemperature(req.Temperature),
                 mt |-> req.MaxTokens,
                 msgs |-> [i \in DOMAIN req.Messages |->
                              [role |-> req.Messages[i].Role,
                               content |-> req.Messages[i].Content]]])>>

\* buildCacheKey: "cache:" and the digest of the JSON of {w, k, p, m, t, mt, msgs}.
buildCacheKey(req) ==
    <<"cache:",
      sha256Hex([w |-> req.WorkspaceID, k |-> req.APIKeyID, p |-> resolveProvider(req.Model),
                 m |-> req.Model, t |-> fmtTemperature(req.Temperature),
                 mt |-> req.MaxTokens,
                 msgs |-> [i \in DOMAIN req.Messages |->
                              [role |-> req.Messages[i].Role,
                               content |-> req.Messages[i].Content]]])>>

InitKey ==
    /\ now = 0
    /\ gatewayIdle
    /\ memInit
    /\ logInit
    /\ chatInit
    /\ peripheralInit
    /\ kin \in ProxyRequests \X ProxyRequests
    /\ kout = <<>>

\* Both requests get their key.
ComputeKeys ==
    /\ kout = <<>>
    /\ kout' = <<buildCacheKey(kin[1]), buildCacheKey(kin[2])>>
    /\ UNCHANGED <<now, kin, outsideKey>>

NextKey == ComputeKeys

SpecKey == InitKey /\ [][NextKey]_vars

----------------------------------------------------------------------------
\* The request logger (internal/logger): a burst of Log calls against the
\* background writer run, which Close stops.

\* Log that sends on the channel with no default branch.
Log_blockingSend ==
    /\ logged < MaxLogged
    /\ Len(lch) < channelBuffer
    /\ logged' = logged + 1
    /\ lch' = Append(lch, logged + 1)
    /\ UNCHANGED <<now, batch, written, droppedLogs, lpc, ldone, closers, closes, outsideLog>>

\* Log: the entry goes into the channel if it has room, else it is counted
\* as dropped.  Entries are numbered in the order of the calls.
Log ==
    /\ logged < MaxLogged
    /\ logged' = logged + 1
    /\ IF Len(lch) < channelBuffer
       THEN lch' = Append(lch, logged + 1) /\ droppedLogs' = droppedLogs
       ELSE lch' = lch /\ droppedLogs' = droppedLogs + 1
    /\ UNCHANGED <<now, batch, written, lpc, ldone, closers, closes, outsideLog>>

\* The batch after one more entry.
received(entry) == Append(batch, entry)

\* run, case entry := <-l.ch (in the main loop and in the drain loop).
RunReceive ==
    /\ lpc \in {"run", "drain"}
    /\ lch # <<>>
    /\ lch' = Tail(lch)
    /\ IF Len(received(Head(lch))) >= batchSize
       THEN batch' = <<>> /\ written' = written \o received(Head(lch))
       ELSE batch' = received(Head(lch)) /\ written' = written
    /\ UNCHANGED <<now, droppedLogs, lpc, ldone, logged, closers, closes, outsideLog>>

\* run, case <-ticker.C: flush.
RunTick ==
    /\ lpc = "run"
    /\ batch # <<>>
    /\ written' = written \o batch
    /\ batch' = <<>>
    /\ UNCHANGED <<now, lch, droppedLogs, lpc, ldone, logged, closers, closes, outsideLog>>

\* The entries a channel holds.
queued(ch) == {ch[i] : i \in 1..Len(ch)}

\* Close up to wg.Wait: closeOnce.Do runs close(l.done) for the first caller
\* only.  The caller notes the entries the queue holds at the call and whether
\* run is still running.  A caller that has returned may call again.
Close(c) ==
    /\ closers[c].pc \in {"idle", "returned"}
    /\ IF ldone
       THEN UNCHANGED <<ldone, closes>>
       ELSE ldone' = TRUE /\ closes' = closes + 1
    /\ closers' = [closers EXCEPT ![c] = [pc |-> "wait", queued |-> queued(lch),
                                          running |-> lpc # "exit"]]
    /\ UNCHANGED <<now, lch, batch, written, droppedLogs, lpc, logged, outsideLog>>

\* Close that returns without l.wg.Wait().
CloseReturn_noWait(c) ==
    /\ closers[c].pc = "wait"
    /\ closers' = [closers EXCEPT ![c].pc = "returned"]
    /\ UNCHANGED <<now, lch, batch, written, droppedLogs, lpc, ldone, logged, closes, outsideLog>>

\* Close: wg.Wait returns once run has called wg.Done; Close returns nil.
CloseReturn(c) ==
    /\ closers[c].pc = "wait"
    /\ lpc = "exit"
    /\ closers' = [closers EXCEPT ![c].pc = "returned"]
    /\ UNCHANGED <<now, lch, batch, written, droppedLogs, lpc, ldone, logged, closes, outsideLog>>

\* run, case <-l.done: enter the drain loop.
RunDone ==
    /\ lpc = "run"
    /\ ldone
    /\ lpc' = "drain"
    /\ UNCHANGED <<now, lch, batch, written, droppedLogs, ldone, logged, closers, closes, outsideLog>>

\* The drain loop finds the channel empty: flush and return.
DrainExit ==
    /\ lpc = "drain"
    /\ lch = <<>>
    /\ written' = written \o batch
    /\ batch' = <<>>
    /\ lpc' = "exit"
    /\ UNCHANGED <<now, lch, droppedLogs, ldone, logged, closers, closes, outsideLog>>

InitLog ==
    /\ now = 0
    /\ gatewayIdle
    /\ memInit
    /\ keyInit
    /\ logInit
    /\ chatInit
    /\ peripheralInit

NextLog ==
    \/ Log
    \/ RunReceive
    \/ RunTick
    \/ \E c \in Closers : Close(c)
    \/ \E c \in Closers : CloseReturn(c)
    \/ RunDone
    \/ DrainExit

SpecLog == InitLog /\ [][NextLog]_vars

\* run is a goroutine of its own that the scheduler keeps running, and its
\* ticker fires every flushInterval: each of its steps is taken if it stays
\* possible.  Nothing obliges a caller to call Log or Close.
SpecLogFair ==
    /\ SpecLog
    /\ WF_vars(RunReceive)
    /\ WF_vars(RunTick)
    /\ WF_vars(RunDone)
    /\ WF_vars(DrainExit)

----------------------------------------------------------------------------
\* dispatchChat with its cache: the client key, the cache lookup, the call
\* of requestWithFailover, the response and the cache write.

\* Authorization headers of inbound requests: none, two bearer tokens (one
\* with the scheme in lower case), and a header of another scheme.
NoHeader == [scheme |-> "", token |-> ""]

Headers ==
    {NoHeader, [scheme |-> "Bearer", token |-> "tA"],
     [scheme |-> "bearer", token |-> "tB"], [scheme |-> "Basic", token |-> "tA"]}

\* hex.EncodeToString(sha256.Sum256(token)) of the tokens above.
tokenDigest(token) == IF token = "tA" THEN "id-A" ELSE "id-B"

parseBearerToken(header) ==
    IF header = NoHeader THEN ""
    ELSE IF header.scheme \notin {"Bearer", "bearer"} THEN ""
    ELSE header.token

\* extractClientAPIKey that returns the token without its digest.
extractClientAPIKey_noDigest(allow, header) ==
    IF ~allow THEN [token |-> "", tokenID |-> ""]
    ELSE [token |-> parseBearerToken(header), tokenID |-> ""]

extractClientAPIKey(allow, header) ==
    IF ~allow THEN [token |-> "", tokenID |-> ""]
    ELSE IF header = NoHeader THEN [token |-> "", tokenID |-> ""]
    ELSE LET token == parseBearerToken(header) IN
         IF token = "" THEN [token |-> "", tokenID |-> ""]
         ELSE [token |-> token, tokenID |-> tokenDigest(token)]

\* The models of chat requests and the configured exclusion list: one exact
\* rule and one pattern.
ChatModels == {"gpt-4o", "o1", "claude-3-5-sonnet"}

cacheExclusions == [exact |-> {"o1"}, patterns |-> {"^claude-"}]

\* regexp.MatchString of the pattern above on the chat models.
MatchString(re, model) == re = "^claude-" /\ model = "claude-3-5-sonnet"

\* ExclusionList.Matches
Matches(model) ==
    \/ model \in cacheExclusions.exact
    \/ \E re \in cacheExclusions.patterns : MatchString(re, model)

\* The normalized request of a chat request; messages, temperature and
\* max_tokens are the same for all requests.
proxyReqOf(model, stream, key) ==
    [Model |-> model, Messages |-> <<[Role |-> "user", Content |-> "hi"]>>,
     Stream |-> stream, Temperature |-> 0, MaxTokens |-> 0, WorkspaceID |-> "",
     APIKey |-> key.token, APIKeyID |-> key.tokenID]

\* cacheEligible that forgets the stream flag.
cacheEligible_streamsToo(stream, model) ==
    gopts.cache # "none" /\ ~Matches(model)

\* cacheEligible that forgets the exclusion list.
cacheEligible_noExclusions(stream, model) ==
    ~stream /\ gopts.cache # "none"

cacheEligible(stream, model) ==
    ~stream /\ gopts.cache # "none" /\ ~Matches(model)

\* g.cacheTTL as NewGatewayWithOptions sets it.
cacheTTL == IF OptsCacheTTL <= 0 THEN Hour ELSE OptsCacheTTL

\* Response bodies: the serialized answer of a provider to a request for
\* `model` sent with `apiKey`; `variant` tells apart what providers answer.
Variants == {1, 2}

NoBody == [model |-> "", apiKey |-> "", variant |-> 0]

\* The cache keys of all chat requests.
ChatKeys ==
    {buildCacheKey(proxyReqOf(m, FALSE, [token |-> "", tokenID |-> id])) :
        m \in ChatModels, id \in {"", "id-A", "id-B"}}

NoEntry == [present |-> FALSE, data |-> NoBody, expiresAt |-> 0]

NoAnswer == [valid |-> FALSE, body |-> NoBody, at |-> 0]

\* The response written to the client.
NoResponse ==
    [status |-> 0, xcache |-> "", retryAfter |-> "", type |-> "", code |-> "",
     body |-> NoBody, sse |-> FALSE]

\* apierr.Write
Write(status, errType, code) ==
    [NoResponse EXCEPT !.status = status, !.type = errType, !.code = code]

\* apierr.WriteProviderError
WriteProviderError(providerStatus) ==
    IF providerStatus = 429
    THEN [Write(429, "rate_limit_error", "rate_limit_exceeded") EXCEPT !.retryAfter = "60"]
    ELSE Write(502, "provider_error", "provider_error")

\* apierr.WriteTimeout
WriteTimeout == Write(504, "provider_error", "request_timeout")

\* The error requestWithFailover returns: fmt.Errorf("...: %w", lastErr).
failoverError(lastErr) == [kind |-> "wrapped", status |-> 0, cause |-> lastErr]

\* errors.Is(err, context.DeadlineExceeded)
isDeadlineExceeded(err) ==
    IF err.kind = "wrapped" THEN err.cause = errTimeout ELSE err = errTimeout

\* handleProviderError: the type assertion err.(statusCoder) holds for the
\* provider errors that carry a status, not for an error that wraps one.
handleProviderError(err) ==
    IF err.kind = "status" THEN WriteProviderError(err.status)
    ELSE IF isDeadlineExceeded(err) THEN WriteTimeout
    ELSE Write(502, "provider_error", "provider_error")

\* A request slot of the chat gateway with no request.
idleChat ==
    [pc |-> "idle", model |-> "", stream |-> FALSE, header |-> NoHeader,
     apiKey |-> "", apiKeyID |-> "", eligible |-> FALSE, item |-> NoEntry,
     lastErr |-> noErr, called |-> FALSE, read |-> FALSE, wrote |-> FALSE,
     getFault |-> FALSE, setFault |-> FALSE,
     after |-> NoAnswer, resp |-> NoResponse]

ChatSlots == {1, 2}

\* The cache key of the request in slot r.
keyOf(r) ==
    buildCacheKey(proxyReqOf(chat[r].model, chat[r].stream,
                             [token |-> chat[r].apiKey, tokenID |-> chat[r].apiKeyID]))

\* dispatchChat up to the cache lookup.
Receive(r, model, stream, header) ==
    /\ chat[r].pc = "idle"
    /\ LET key == extractClientAPIKey(gopts.AllowClientAPIKeys, header)
           eligible == cacheEligible(stream, model)
           k == buildCacheKey(proxyReqOf(model, stream, key))
       IN chat' = [chat EXCEPT ![r] =
                      [idleChat EXCEPT !.pc = IF eligible THEN "lookup" ELSE "provider",
                                       !.model = model, !.stream = stream,
                                       !.header = header, !.apiKey = key.token,
                                       !.apiKeyID = key.tokenID, !.eligible = eligible,
                                       !.after = IF answered[k].valid
                                                    /\ now - answered[k].at < cacheTTL
                                                 THEN answered[k] ELSE NoAnswer]]
    /\ UNCHANGED <<now, gopts, gcache, answered, outsideChat>>

\* The cache hit: X-Cache: HIT and the stored bytes.
hit(q, data) ==
    [q EXCEPT !.pc = "done", !.item = NoEntry,
              !.resp = [NoResponse EXCEPT !.status = 200, !.xcache = "HIT", !.body = data]]

\* MemoryCache.Get, first part: the map read under the read lock.
ChatGetRead(r) ==
    /\ chat[r].pc = "lookup"
    /\ gopts.cache = "memory"
    /\ chat' = [chat EXCEPT ![r].pc = "got", ![r].item = gcache[keyOf(r)], ![r].read = TRUE]
    /\ UNCHANGED <<now, gopts, gcache, answered, outsideChat>>

\* MemoryCache.Get, second part: absent, expired or hit.
ChatGetCheck(r) ==
    /\ chat[r].pc = "got"
    /\ LET item == chat[r].item IN
       chat' = [chat EXCEPT ![r] =
                   IF ~item.present THEN [@ EXCEPT !.pc = "provider"]
                   ELSE IF now > item.expiresAt THEN [@ EXCEPT !.pc = "getdel"]
                   ELSE hit(@, item.data)]
    /\ UNCHANGED <<now, gopts, gcache, answered, outsideChat>>

\* MemoryCache.Get, third part: the lazy removal, then the miss.
ChatGetDelete(r) ==
    /\ chat[r].pc = "getdel"
    /\ gcache' = [gcache EXCEPT ![keyOf(r)] = NoEntry]
    /\ chat' = [chat EXCEPT ![r].pc = "provider", ![r].item = NoEntry]
    /\ UNCHANGED <<now, gopts, answered, outsideChat>>

\* ExactCache.Get that lets a backend fault fail the request.
ExactGet_failsRequest(r, fault) ==
    /\ chat[r].pc = "lookup"
    /\ gopts.cache = "redis"
    /\ LET item == gcache[keyOf(r)] IN
       chat' = [chat EXCEPT ![r] =
                   IF fault
                   THEN [@ EXCEPT !.pc = "done", !.read = TRUE, !.getFault = TRUE,
                                  !.resp = Write(500, "server_error", "internal_error")]
                   ELSE IF item.present /\ now < item.expiresAt
                   THEN hit([@ EXCEPT !.read = TRUE], item.data)
                   ELSE [@ EXCEPT !.pc = "provider", !.read = TRUE]]
    /\ UNCHANGED <<now, gopts, gcache, answered, outsideChat>>

\* ExactCache.Get: a timeout or transport error is a miss, as is redis.Nil
\* for a key that is absent or whose ttl has run out.
ExactGet(r, fault) ==
    /\ chat[r].pc = "lookup"
    /\ gopts.cache = "redis"
    /\ LET item == gcache[keyOf(r)] IN
       chat' = [chat EXCEPT ![r] =
                   IF fault
                   THEN [@ EXCEPT !.pc = "provider", !.read = TRUE, !.getFault = TRUE]
                   ELSE IF item.present /\ now < item.expiresAt
                   THEN hit([@ EXCEPT !.read = TRUE], item.data)
                   ELSE [@ EXCEPT !.pc = "provider", !.read = TRUE]]
    /\ UNCHANGED <<now, gopts, gcache, answered, outsideChat>>

\* g.cache.Set of either backend: MemoryCache.Set stores; ExactCache.Set
\* stores unless the backend fails, and returns nil either way.
cacheSet(k, body, fault) ==
    IF gopts.cache = "redis" /\ fault THEN gcache
    ELSE [gcache EXCEPT ![k] = [present |-> TRUE, data |-> body, expiresAt |-> now + cacheTTL]]

\* requestWithFailover returns a response: the SSE pass-through for a stream,
\* else the envelope, the cache write and X-Cache: MISS.
ProviderSucceeds(r, variant, streamed, fault) ==
    /\ chat[r].pc = "provider"
    /\ fault => (gopts.cache = "redis" /\ chat[r].eligible)
    /\ streamed => chat[r].stream
    /\ LET body == [model |-> chat[r].model, apiKey |-> chat[r].apiKey, variant |-> variant]
           k == keyOf(r)
       IN IF chat[r].stream /\ streamed
          THEN /\ chat' = [chat EXCEPT ![r].pc = "done", ![r].called = TRUE,
                                       ![r].resp = [NoResponse EXCEPT !.status = 200,
                                                                      !.sse = TRUE]]
               /\ UNCHANGED <<gcache, answered>>
          ELSE /\ chat' = [chat EXCEPT ![r].pc = "done", ![r].called = TRUE,
                                       ![r].wrote = chat[r].eligible,
                                       ![r].setFault = fault,
                                       ![r].resp = [NoResponse EXCEPT !.status = 200,
                                                                      !.xcache = "MISS",
                                                                      !.body = body]]
               /\ gcache' = IF chat[r].eligible THEN cacheSet(k, body, fault) ELSE gcache
               /\ answered' = IF chat[r].eligible
                               THEN [answered EXCEPT ![k] =
                                        [valid |-> TRUE, body |-> body, at |-> now]]
                               ELSE answered
    /\ UNCHANGED <<now, gopts, outsideChat>>

\* ProviderFails that stores the error response in the cache.
ProviderFails_cachesError(r, lastErr) ==
    /\ chat[r].pc = "provider"
    /\ chat' = [chat EXCEPT ![r].pc = "done", ![r].called = TRUE, ![r].lastErr = lastErr,
                            ![r].resp = handleProviderError(failoverError(lastErr))]
    /\ gcache' = IF chat[r].eligible THEN cacheSet(keyOf(r), NoBody, FALSE) ELSE gcache
    /\ UNCHANGED <<now, gopts, answered, outsideChat>>

\* requestWithFailover returns an error: handleProviderError answers.
ProviderFails(r, lastErr) ==
    /\ chat[r].pc = "provider"
    /\ chat' = [chat EXCEPT ![r].pc = "done", ![r].called = TRUE, ![r].lastErr = lastErr,
                            ![r].resp = handleProviderError(failoverError(lastErr))]
    /\ UNCHANGED <<now, gopts, gcache, answered, outsideChat>>

\* The handler has returned and the slot takes the next request.
Finish(r) ==
    /\ chat[r].pc = "done"
    /\ chat' = [chat EXCEPT ![r] = idleChat]
    /\ UNCHANGED <<now, gopts, gcache, answered, outsideChat>>

\* The gateway built with either client-key setting and any cache backend.
InitChat ==
    /\ now = 0
    /\ gatewayIdle
    /\ memInit
    /\ keyInit
    /\ logInit
    /\ peripheralInit
    /\ gopts \in [AllowClientAPIKeys : BOOLEAN, cache : {"none", "memory", "redis"}]
    /\ chat = [r \in ChatSlots |-> idleChat]
    /\ gcache = [k \in ChatKeys |-> NoEntry]
    /\ answered = [k \in ChatKeys |-> NoAnswer]

\* The errors requestWithFailover ends with.
FailoverErrors == Errors \cup {errNoProviders}

\* Requests handled one after another.
NextChat ==
    \/ Tick(MaxTimeChat)
    \/ \E r \in Serial : \E model \in ChatModels : \E stream \in BOOLEAN :
            \E header \in Headers : Receive(r, model, stream, header)
    \/ \E r \in Serial : ChatGetRead(r)
    \/ \E r \in Serial : ChatGetCheck(r)
    \/ \E r \in Serial : ChatGetDelete(r)
    \/ \E r \in Serial : \E fault \in BOOLEAN : ExactGet(r, fault)
    \/ \E r \in Serial : \E streamed, fault \in BOOLEAN :
            ProviderSucceeds(r, 1, streamed, fault)
    \/ \E r \in Serial : \E lastErr \in FailoverErrors : ProviderFails(r, lastErr)
    \/ \E r \in Serial : Finish(r)

SpecChat == InitChat /\ [][NextChat]_vars

\* Two concurrent requests for the same model without client keys, against
\* the in-process cache.
InitChatConc ==
    /\ now = 0
    /\ gatewayIdle
    /\ memInit
    /\ keyInit
    /\ logInit
    /\ peripheralInit
    /\ gopts = [AllowClientAPIKeys |-> FALSE, cache |-> "memory"]
    /\ chat = [r \in ChatSlots |-> idleChat]
    /\ gcache = [k \in ChatKeys |-> NoEntry]
    /\ answered = [k \in ChatKeys |-> NoAnswer]

NextChatConc ==
    \/ Tick(MaxTimeChatConc)
    \/ \E r \in ChatSlots : Receive(r, "gpt-4o", FALSE, NoHeader)
    \/ \E r \in ChatSlots : ChatGetRead(r)
    \/ \E r \in ChatSlots : ChatGetCheck(r)
    \/ \E r \in ChatSlots : ChatGetDelete(r)
    \/ \E r \in ChatSlots : \E variant \in Variants :
            ProviderSucceeds(r, variant, FALSE, FALSE)
    \/ \E r \in ChatSlots : ProviderFails(r, statusErr(500))
    \/ \E r \in ChatSlots : Finish(r)

SpecChatConc == InitChatConc /\ [][NextChatConc]_vars

----------------------------------------------------------------------------
\* The rate limiter (internal/ratelimit) and step 3 of dispatchChat: each
\* request reads the clock, runs slidingWindowScript on Redis, and is refused
\* with 429 or goes on to the provider.

\* The goroutines that handle requests against the limiter.
RPMSlots == {1, 2}

\* The values math.random(1, 1000000) returns, cut to two.
Suffixes == {1, 2}

\* A request that has not reached the limiter.
idleRL ==
    [pc |-> "idle", stamp |-> 0, fault |-> FALSE, allowed |-> FALSE,
     resp |-> NoResponse]

\* tostring(now) .. tostring(math.random(1, 1000000)): the member the script
\* adds.  The stamps have the same number of digits, so that two members are
\* equal exactly when both the stamp and the suffix are.
member(stamp, suffix) == <<stamp, suffix>>

\* The score of a member: the stamp it was added with.
score(m) == m[1]

\* The key as a script finds it at time t: gone once its expiry has passed.
keyAt(t) == IF zexpire >= 0 /\ t >= zexpire THEN {} ELSE zset

\* slidingWindowScript, run at server time t for a request stamped stamp.
slidingWindowScript(t, stamp, limit, suffix) ==
    LET kept == {m \in keyAt(t) : ~(0 <= score(m) /\ score(m) <= stamp - window)}
        expiry == IF keyAt(t) = zset THEN zexpire ELSE -1
    IN  IF Cardinality(kept) >= limit
        THEN [ret |-> 0, zset |-> kept,
              zexpire |-> IF kept = {} THEN -1 ELSE expiry]
        ELSE [ret |-> 1, zset |-> kept \cup {member(stamp, suffix)},
              zexpire |-> t + window]

\* RPMLimiter.check that refuses the request when the script fails.
check_failClosed(stamp, suffix, up) ==
    IF ~up
    THEN [allowed |-> FALSE, zset |-> zset, zexpire |-> zexpire]
    ELSE LET run == slidingWindowScript(now, stamp, rpmLimit, suffix) IN
         [allowed |-> run.ret = 1, zset |-> run.zset, zexpire |-> run.zexpire]

\* RPMLimiter.check after the clock was read: the script runs on Redis; an
\* error of the call admits the request.
check(stamp, suffix, up) ==
    IF ~up
    THEN [allowed |-> TRUE, zset |-> zset, zexpire |-> zexpire]
    ELSE LET run == slidingWindowScript(now, stamp, rpmLimit, suffix) IN
         [allowed |-> run.ret = 1, zset |-> run.zset, zexpire |-> run.zexpire]

\* apierr.WriteRateLimit
WriteRateLimit ==
    [Write(429, "rate_limit_error", "rate_limit_exceeded") EXCEPT !.retryAfter = "60"]

\* The number of requests admitted so far.
RECURSIVE admittedUpTo(_)
admittedUpTo(t) == IF t < 0 THEN 0 ELSE admitted[t] + admittedUpTo(t - 1)

\* dispatchChat reaches step 3 and RPMLimiter.check reads time.Now().
RPMStamp(r) ==
    /\ rl[r].pc \in {"idle", "done"}
    /\ admittedUpTo(MaxTimeRPM) + outages < MaxAdmitted
    /\ rl' = [rl EXCEPT ![r] = [idleRL EXCEPT !.pc = "stamped", !.stamp = now]]
    /\ UNCHANGED <<now, rpmLimit, zset, zexpire, admitted, outages, outsideRPM>>

\* The script call returns and dispatchChat acts on the result: a refused
\* request is answered by WriteRateLimit, an admitted one goes on.
RPMCheck(r, suffix, up) ==
    LET c == check(rl[r].stamp, suffix, up) IN
    /\ rl[r].pc = "stamped"
    /\ zset' = c.zset
    /\ zexpire' = c.zexpire
    /\ rl' = [rl EXCEPT ![r].pc = "done", ![r].fault = ~up,
                        ![r].allowed = c.allowed,
                        ![r].resp = IF c.allowed THEN NoResponse ELSE WriteRateLimit]
    /\ admitted' = IF c.allowed /\ up
                   THEN [admitted EXCEPT ![rl[r].stamp] = @ + 1]
                   ELSE admitted
    /\ outages' = IF up THEN outages ELSE outages + 1
    /\ UNCHANGED <<now, rpmLimit, outsideRPM>>

\* The clock of the limiter.
RPMTick ==
    /\ now < MaxTimeRPM
    /\ now' = now + 1
    /\ UNCHANGED <<rpmVars, outsideRPM>>

InitRPM ==
    /\ now = 0
    /\ gatewayIdle
    /\ memInit
    /\ keyInit
    /\ logInit
    /\ chatInit
    /\ streamInit
    /\ embedInit
    /\ appInit
    /\ recoverInit
    /\ healthInit
    /\ gaugeInit
    /\ handlerInit
    /\ chatLogInit
    /\ lockInit
    /\ rpmLimit \in 1..MaxRPM
    /\ zset = {}
    /\ zexpire = -1
    /\ rl = [r \in RPMSlots |-> idleRL]
    /\ admitted = [t \in 0..MaxTimeRPM |-> 0]
    /\ outages = 0

NextRPM ==
    \/ RPMTick
    \/ \E r \in RPMSlots : RPMStamp(r)
    \/ \E r \in RPMSlots : \E suffix \in Suffixes : \E up \in BOOLEAN :
            RPMCheck(r, suffix, up)

SpecRPM == InitRPM /\ [][NextRPM]_vars

----------------------------------------------------------------------------
\* A streaming response: the producer goroutine of Provider.handleStreaming
\* (openaicompat and mistral) feeds the stream channel, and the stream writer
\* of writeSSE ranges over it.

\* The providers whose handleStreaming is modelled.
Flavors == {"openaicompat", "mistral"}

\* providers.StreamChunk: the n-th chunk of the upstream stream.
chunk(n) == [content |-> n, finish |-> ""]

\* The chunk openaicompat sends when stream.Err() is not nil.
errorChunk == [content |-> 0, finish |-> "error"]

\* The SSE events writeSSE writes: one data event per chunk, and data: [DONE].
dataEvent(c) == [done |-> FALSE, chunk |-> c]

doneEvent == [done |-> TRUE, chunk |-> errorChunk]

\* What the next read of the upstream stream can give: a chunk, the end of
\* the stream, or an error; only an error once the context is cancelled.
Reads == {"chunk", "end", "error"}

\* defer close(ch), as the producer goroutine returns.
closeStream ==
    /\ sclosed' = TRUE
    /\ scloses' = scloses + 1
    /\ ppc' = "exited"

\* The producer reads the upstream stream (stream.Next / scanner.Scan).
ProducerNext(read) ==
    /\ ppc = "next"
    /\ cancelled => read = "error"
    /\ read = "chunk" => produced < MaxChunks
    /\ CASE read = "chunk" ->
              /\ pending' = chunk(produced + 1)
              /\ produced' = produced + 1
              /\ ppc' = "send"
              /\ UNCHANGED <<sclosed, scloses>>
         [] read = "error" /\ flavor = "openaicompat" ->
              /\ pending' = errorChunk
              /\ ppc' = "send"
              /\ UNCHANGED <<produced, sclosed, scloses>>
         [] OTHER ->
              /\ closeStream
              /\ UNCHANGED <<pending, produced>>
    /\ UNCHANGED <<now, flavor, sch, sent, cancelled, cpc, emitted, outsideStream>>

\* ch <- chunk: the send goes through once the channel has room.  After the
\* error chunk the goroutine returns and closes the channel.
ProducerSend ==
    /\ ppc = "send"
    /\ Len(sch) < StreamBuffer
    /\ sch' = Append(sch, pending)
    /\ sent' = Append(sent, pending)
    /\ IF pending = errorChunk
       THEN closeStream
       ELSE ppc' = "next" /\ UNCHANGED <<sclosed, scloses>>
    /\ UNCHANGED <<now, flavor, produced, pending, cancelled, cpc, emitted, outsideStream>>

\* The context of the request is cancelled.
Cancel ==
    /\ ~cancelled
    /\ cancelled' = TRUE
    /\ UNCHANGED <<now, flavor, produced, ppc, pending, sch, sent, sclosed, scloses,
                   cpc, emitted, outsideStream>>

\* writeSSE, one turn of for chunk := range resp.Stream: a data event.
ConsumerRecv ==
    /\ cpc = "range"
    /\ sch # <<>>
    /\ emitted' = Append(emitted, dataEvent(Head(sch)))
    /\ sch' = Tail(sch)
    /\ UNCHANGED <<now, flavor, produced, ppc, pending, sent, sclosed, scloses,
                   cancelled, cpc, outsideStream>>

\* writeSSE that leaves the loop as soon as the channel is empty.
ConsumerDone_onEmpty ==
    /\ cpc = "range"
    /\ sch = <<>>
    /\ emitted' = Append(emitted, doneEvent)
    /\ cpc' = "done"
    /\ UNCHANGED <<now, flavor, produced, ppc, pending, sch, sent, sclosed, scloses,
                   cancelled, outsideStream>>

\* writeSSE, the range loop ends on the closed and drained channel:
\* data: [DONE] is written and the writer returns.
ConsumerDone ==
    /\ cpc = "range"
    /\ sch = <<>>
    /\ sclosed
    /\ emitted' = Append(emitted, doneEvent)
    /\ cpc' = "done"
    /\ UNCHANGED <<now, flavor, produced, ppc, pending, sch, sent, sclosed, scloses,
                   cancelled, outsideStream>>

\* The stream writer stops reading: a panic in it is recovered by the
\* deferred recover() and the writer returns.
ConsumerStop ==
    /\ cpc = "range"
    /\ cpc' = "stopped"
    /\ UNCHANGED <<now, flavor, produced, ppc, pending, sch, sent, sclosed, scloses,
                   cancelled, emitted, outsideStream>>

InitStream ==
    /\ now = 0
    /\ gatewayIdle
    /\ memInit
    /\ keyInit
    /\ logInit
    /\ chatInit
    /\ rpmInit
    /\ embedInit
    /\ appInit
    /\ recoverInit
    /\ healthInit
    /\ gaugeInit
    /\ handlerInit
    /\ chatLogInit
    /\ lockInit
    /\ flavor \in Flavors
    /\ produced = 0
    /\ ppc = "next"
    /\ pending = errorChunk
    /\ sch = <<>>
    /\ sent = <<>>
    /\ sclosed = FALSE
    /\ scloses = 0
    /\ cancelled = FALSE
    /\ cpc = "range"
    /\ emitted = <<>>

NextStream ==
    \/ \E read \in Reads : ProducerNext(read)
    \/ ProducerSend
    \/ Cancel
    \/ ConsumerRecv
    \/ ConsumerDone
    \/ ConsumerStop

SpecStream == InitStream /\ [][NextStream]_vars

\* The goroutines are scheduled: a producer that can read or send does, and
\* a stream writer that can take a chunk or finish does.
SpecStreamFair ==
    /\ SpecStream
    /\ WF_vars(\E read \in Reads : ProducerNext(read))
    /\ WF_vars(ProducerSend)
    /\ WF_vars(ConsumerRecv)
    /\ WF_vars(ConsumerDone)

----------------------------------------------------------------------------
\* dispatchEmbeddings: the provider is resolved from the model name, looked
\* up in the registry, asked for the Embedding capability and called once.

\* The providers a gateway is configured with, in this part of the model.
EmbedNames == {"anthropic", "mistral", "gemini"}

\* The providers that implement providers.EmbeddingProvider.
Embedders == {"mistral", "gemini"}

\* providers.EmbeddingModelAliases, cut to two entries.
EmbeddingModelAliases == [m \in {"mistral-embed", "text-embedding-004"} |->
                             IF m = "mistral-embed" THEN "mistral" ELSE "gemini"]

\* Model names of embedding requests: two embedding models, a chat model, one
\* no alias knows, and a missing one.
EmbedModels == {"mistral-embed", "text-embedding-004", "claude-3-5-sonnet", "my-model", ""}

resolveEmbeddingProvider(model) ==
    IF model \in DOMAIN EmbeddingModelAliases THEN EmbeddingModelAliases[model]
    ELSE IF model \in DOMAIN ModelAliases THEN ModelAliases[model]
    ELSE "openai"

\* No embeddings request handled.
idleEmbed ==
    [model |-> "", resolved |-> "", served |-> "", calls |-> <<>>, resp |-> NoResponse]

\* The provider dispatchEmbeddings goes on with: the resolved one if the
\* registry has it, else the first one a range over the registry yields.
lookup(providerName, first) ==
    IF providerName \in eregistry THEN providerName ELSE first

\* The response and the Embed calls of dispatchEmbeddings for a model, when a
\* range over the registry yields `first` first and Embed returns err.
embedOutcome(model, first, err) ==
    LET providerName == resolveEmbeddingProvider(model)
        prov == lookup(providerName, first)
        base == [idleEmbed EXCEPT !.model = model]
    IN  IF model = ""
        THEN [base EXCEPT !.resp = Write(400, "invalid_request_error", "invalid_request")]
        ELSE IF eregistry = {}
        THEN [base EXCEPT !.resolved = providerName, !.served = providerName,
                          !.resp = Write(502, "provider_error", "provider_error")]
        ELSE IF prov \notin Embedders
        THEN [base EXCEPT !.resolved = providerName, !.served = prov,
                          !.resp = Write(400, "invalid_request_error", "invalid_request")]
        ELSE [base EXCEPT !.resolved = providerName, !.served = prov,
                          !.calls = <<prov>>,
                          !.resp = IF err = noErr
                                   THEN [NoResponse EXCEPT !.status = 200]
                                   ELSE handleProviderError(err)]

\* dispatchEmbeddings handles a request.
DispatchEmbeddings(model, first, err) ==
    /\ eregistry # {} => first \in eregistry
    /\ emb' = embedOutcome(model, first, err)
    /\ outcomes' = [outcomes EXCEPT ![model] = @ \cup {emb'.calls}]
    /\ UNCHANGED <<now, eregistry, outsideEmbed>>

InitEmbed ==
    /\ now = 0
    /\ gatewayIdle
    /\ memInit
    /\ keyInit
    /\ logInit
    /\ chatInit
    /\ rpmInit
    /\ streamInit
    /\ appInit
    /\ recoverInit
    /\ healthInit
    /\ gaugeInit
    /\ handlerInit
    /\ chatLogInit
    /\ lockInit
    /\ eregistry \in SUBSET EmbedNames
    /\ emb = idleEmbed
    /\ outcomes = [m \in EmbedModels |-> {}]

NextEmbed ==
    \E model \in EmbedModels : \E first \in EmbedNames : \E err \in {noErr} \cup Errors :
        DispatchEmbeddings(model, first, err)

SpecEmbed == InitEmbed /\ [][NextEmbed]_vars

----------------------------------------------------------------------------
\* The life of the process: main builds the App, Run serves until the root
\* context is cancelled, App.Close releases the resources, and the background
\* loops of the in-process cache and of the health checker run beside them.

\* The fields App.Close releases, in the order it releases them.
Resources == <<"reqLogger", "memCache", "rdb">>

\* The goroutines that call App.Close: the one Run starts, which waits for
\* the group context, and another holder of the App.
AppCallers == {"run", "caller"}

\* Cache.Mode of the configuration.
CacheModes == {"memory", "redis", "none"}

\* The App fields New leaves non-nil: the request logger is never wired, the
\* in-process cache exists in mode "memory", the Redis client when a URL is
\* configured.
newApp(mode, redis) ==
    [reqLogger |-> FALSE, memCache |-> (mode = "memory"), rdb |-> redis]

\* A goroutine that has not called App.Close.
idleCaller == [pc |-> "idle", res |-> 1, calls |-> 0]

\* gctx of the errgroup in Run: done when the root context is, or when a
\* goroutine of the group returned an error.
gctxDone == rootDone \/ srv = "failed"

\* hc.done is closed only by HealthChecker.Close, which nothing calls.
hcDone == FALSE

\* c.done of the MemoryCache is closed by MemoryCache.Close.
memDone == released["memCache"] >= 1

\* App.Close goes on to the next field, or returns after the last.
nextField(c) ==
    IF callers[c].res = Len(Resources)
    THEN [callers[c] EXCEPT !.pc = "done"]
    ELSE [callers[c] EXCEPT !.pc = "check", !.res = @ + 1]

\* The shutdown signal cancels the root context.
Signal ==
    /\ proc = "running"
    /\ ~rootDone
    /\ rootDone' = TRUE
    /\ UNCHANGED <<now, cfgMode, srv, runpc, appf, callers, released, proc,
                   cleanuppc, healthpc, probes, outsideApp>>

\* srv.ListenAndServe returns an error; StartWithRoutes returns it to the
\* errgroup, which cancels gctx.
ServeFail ==
    /\ proc = "running"
    /\ srv = "listening"
    /\ srv' = "failed"
    /\ UNCHANGED <<now, cfgMode, rootDone, runpc, appf, callers, released, proc,
                   cleanuppc, healthpc, probes, outsideApp>>

\* A goroutine calls App.Close: the goroutine of Run once gctx is done, the
\* other holder at any time.
AppCloseBegin(c) ==
    /\ proc = "running"
    /\ IF c = "run"
       THEN callers[c].pc = "idle" /\ gctxDone
       ELSE callers[c].pc \in {"idle", "done"} /\ callers[c].calls < MaxCloseCalls
    /\ callers' = [callers EXCEPT ![c] = [pc |-> "check", res |-> 1, calls |-> @.calls + 1]]
    /\ UNCHANGED <<now, cfgMode, rootDone, srv, runpc, appf, released, proc,
                   cleanuppc, healthpc, probes, outsideApp>>

\* App.Close reads a field: if a.x != nil.
AppCloseCheck(c) ==
    /\ proc = "running"
    /\ callers[c].pc = "check"
    /\ callers' = [callers EXCEPT ![c] =
                      IF appf[Resources[callers[c].res]]
                      THEN [@ EXCEPT !.pc = "close"]
                      ELSE nextField(c)]
    /\ UNCHANGED <<now, cfgMode, rootDone, srv, runpc, appf, released, proc,
                   cleanuppc, healthpc, probes, outsideApp>>

\* App.Close closes the resource it found.  Logger.Close closes its channel
\* under a sync.Once and redis.Client.Close answers an error the second time;
\* MemoryCache.Close is close(c.done), which panics on a closed channel.
AppCloseRelease(c) ==
    /\ proc = "running"
    /\ callers[c].pc = "close"
    /\ LET r == Resources[callers[c].res]
       IN  IF r = "memCache" /\ memDone
           THEN /\ proc' = "panicked"
                /\ callers' = [callers EXCEPT ![c].pc = "panicked"]
                /\ UNCHANGED released
           ELSE /\ released' = [released EXCEPT ![r] = IF @ = 0 THEN 1 ELSE @]
                /\ callers' = [callers EXCEPT ![c].pc = "clear"]
                /\ UNCHANGED proc
    /\ UNCHANGED <<now, cfgMode, rootDone, srv, runpc, appf,
                   cleanuppc, healthpc, probes, outsideApp>>

\* App.Close sets the field to nil and goes on.
AppCloseClear(c) ==
    /\ proc = "running"
    /\ callers[c].pc = "clear"
    /\ appf' = [appf EXCEPT ![Resources[callers[c].res]] = FALSE]
    /\ callers' = [callers EXCEPT ![c] = nextField(c)]
    /\ UNCHANGED <<now, cfgMode, rootDone, srv, runpc, released, proc,
                   cleanuppc, healthpc, probes, outsideApp>>

\* g.Wait() returns once both goroutines of the group have: StartWithRoutes
\* when ListenAndServe did (nothing shuts the server down), the other after
\* its App.Close.  Run returns the error and main exits.
RunReturn ==
    /\ proc = "running"
    /\ runpc = "wait"
    /\ srv = "failed"
    /\ callers["run"].pc = "done"
    /\ runpc' = "returned"
    /\ proc' = "exited"
    /\ UNCHANGED <<now, cfgMode, rootDone, srv, appf, callers, released,
                   cleanuppc, healthpc, probes, outsideApp>>

\* MemoryCache.cleanup returns on ctx.Done() or on c.done.
CleanupExit ==
    /\ proc = "running"
    /\ cleanuppc = "running"
    /\ rootDone \/ memDone
    /\ cleanuppc' = "exited"
    /\ UNCHANGED <<now, cfgMode, rootDone, srv, runpc, appf, callers, released, proc,
                   healthpc, probes, outsideApp>>

\* HealthChecker.run, one turn of its select: a probe on the ticker, or the
\* return on hc.done.  The root context is not among its cases.
HealthRun ==
    /\ proc = "running"
    /\ healthpc = "running"
    /\ IF hcDone
       THEN healthpc' = "exited" /\ UNCHANGED probes
       ELSE probes' = (probes + 1) % (MaxProbes + 1) /\ UNCHANGED healthpc
    /\ UNCHANGED <<now, cfgMode, rootDone, srv, runpc, appf, callers, released, proc,
                   cleanuppc, outsideApp>>

\* main after app.New and the start of Run: the server listens, Run waits in
\* g.Wait() and the background loops run.
InitApp ==
    /\ now = 0
    /\ gatewayIdle
    /\ memInit
    /\ keyInit
    /\ logInit
    /\ chatInit
    /\ rpmInit
    /\ streamInit
    /\ embedInit
    /\ recoverInit
    /\ healthInit
    /\ gaugeInit
    /\ handlerInit
    /\ chatLogInit
    /\ lockInit
    /\ cfgMode \in CacheModes
    /\ rootDone = FALSE
    /\ srv = "listening"
    /\ runpc = "wait"
    /\ \E redis \in BOOLEAN : appf = newApp(cfgMode, redis)
    /\ callers = [c \in AppCallers |-> idleCaller]
    /\ released = [i \in {Resources[j] : j \in 1..Len(Resources)} |-> 0]
    /\ proc = "running"
    /\ cleanuppc = IF cfgMode = "memory" THEN "running" ELSE "absent"
    /\ healthpc = "running"
    /\ probes = 0

NextApp ==
    \/ Signal
    \/ ServeFail
    \/ \E c \in AppCallers : AppCloseBegin(c)
    \/ \E c \in AppCallers : AppCloseCheck(c)
    \/ \E c \in AppCallers : AppCloseRelease(c)
    \/ \E c \in AppCallers : AppCloseClear(c)
    \/ RunReturn
    \/ CleanupExit
    \/ HealthRun

SpecApp == InitApp /\ [][NextApp]_vars

\* The goroutines are scheduled: the goroutine of Run calls App.Close once
\* gctx is done, a Close under way goes on, g.Wait() returns when it can and
\* the background loops take their turns.  The signal, a failure of the
\* listener and Close calls of other holders are not owed.
SpecAppFair ==
    /\ SpecApp
    /\ WF_vars(AppCloseBegin("run"))
    /\ \A c \in AppCallers :
          WF_vars(AppCloseCheck(c)) /\ WF_vars(AppCloseRelease(c)) /\ WF_vars(AppCloseClear(c))
    /\ WF_vars(RunReturn)
    /\ WF_vars(CleanupExit)
    /\ WF_vars(HealthRun)

----------------------------------------------------------------------------
\* The recovery middleware, outermost of the chain StartWithRoutes builds
\* with applyMiddleware around the router.

\* What the handlers inside the chain leave on the RequestCtx: a response
\* written in full, or one written in part.
HandlerResponses ==
    { NoResponse,
      [NoResponse EXCEPT !.status = 200, !.xcache = "MISS", !.body = [NoBody EXCEPT !.variant = 1]],
      [NoResponse EXCEPT !.status = 200, !.sse = TRUE],
      [Write(429, "rate_limit_error", "rate_limit_exceeded") EXCEPT !.retryAfter = "60"] }

\* One run of next(ctx): the response left on the RequestCtx, and whether the
\* run ended in a panic.
HandlerRuns == [panicked : BOOLEAN, resp : HandlerResponses]

\* recovery that lets the panic through.
recovery_noRecover(h) == h

\* recovery: after a panic of next(ctx) the deferred function resets the
\* body and sets status, content type and the fixed error body; headers set
\* before the panic stay.  Without a panic the response is left as it is.
recovery(h) ==
    IF h.panicked
    THEN [panicked |-> FALSE,
          resp |-> [h.resp EXCEPT !.status = 500, !.type = "server_error",
                                  !.code = "internal_error", !.body = NoBody,
                                  !.sse = FALSE]]
    ELSE h

\* The server handles a request: the chain runs with recovery outermost; a
\* panic that leaves the chain ends the process.
ServeRequest(h) ==
    /\ server = "running"
    /\ Len(hlog) < MaxServed
    /\ LET out == recovery(h)
       IN  IF out.panicked
           THEN server' = "crashed" /\ UNCHANGED hlog
           ELSE hlog' = Append(hlog, [run |-> h, resp |-> out.resp]) /\ UNCHANGED server
    /\ UNCHANGED <<now, outsideRecover>>

InitRecover ==
    /\ now = 0
    /\ gatewayIdle
    /\ memInit
    /\ keyInit
    /\ logInit
    /\ chatInit
    /\ rpmInit
    /\ streamInit
    /\ embedInit
    /\ appInit
    /\ healthInit
    /\ gaugeInit
    /\ handlerInit
    /\ chatLogInit
    /\ lockInit
    /\ hlog = <<>>
    /\ server = "running"

NextRecover == \E h \in HandlerRuns : ServeRequest(h)

SpecRecover == InitRecover /\ [][NextRecover]_vars

----------------------------------------------------------------------------
\* The health checker: NewHealthChecker probes once before it returns, the
\* run loop probes on every tick, and Snapshot reads the latest results
\* while probes may be under way.

\* The providers the health checker was built with.
HProviders == {"openai", "anthropic"}

\* The components with a componentStatus.
Components == HProviders \cup {"cache", "db"}

\* componentStatus.get
componentGet(status) == IF status = "" THEN "unknown" ELSE status

\* What a probe goroutine sets for a component: ok or degraded for a
\* provider and for the cache; hc.dbReady is nil, so ok for the database.
probeResult(c, healthy) ==
    IF c = "db" THEN "ok"
    ELSE IF healthy THEN "ok" ELSE "degraded"

\* No Snapshot returned yet, and a Snapshot that has read nothing.
NoSnapshot ==
    [status |-> "", providers |-> [p \in HProviders |-> ""], cache |-> "", db |-> ""]

unread == [c \in Components |-> "unread"]

\* Snapshot, from the values it has read.
snapshotOf(read) ==
    [status |-> IF (\E p \in HProviders : read[p] # "ok") \/ read["db"] = "down"
                THEN "degraded" ELSE "ok",
     providers |-> [p \in HProviders |-> read[p]],
     cache |-> read["cache"],
     db |-> read["db"]]

\* probe starts one goroutine per component: in NewHealthChecker, and in the
\* run loop on a tick once the probe before has finished.
ProbeStart ==
    /\ hphase \in {"new", "ready"}
    /\ hpending = {}
    /\ hpending' = Components
    /\ hphase' = IF hphase = "new" THEN "probing" ELSE hphase
    /\ UNCHANGED <<now, hstatus, sread, hsnap, outsideHealth>>

\* A probe goroutine sets the status of its component.
ProbeSet(c, healthy) ==
    /\ c \in hpending
    /\ hstatus' = [hstatus EXCEPT ![c] = probeResult(c, healthy)]
    /\ hpending' = hpending \ {c}
    /\ UNCHANGED <<now, hphase, sread, hsnap, outsideHealth>>

\* NewHealthChecker that returns without the first probe.
NewReturn_noProbe ==
    /\ hphase \in {"new", "probing"}
    /\ hpending = {}
    /\ hphase' = "ready"
    /\ UNCHANGED <<now, hstatus, hpending, sread, hsnap, outsideHealth>>

\* NewHealthChecker returns after wg.Wait() of its probe, the run loop
\* started.
NewReturn ==
    /\ hphase = "probing"
    /\ hpending = {}
    /\ hphase' = "ready"
    /\ UNCHANGED <<now, hstatus, hpending, sread, hsnap, outsideHealth>>

\* Snapshot reads one componentStatus under its lock: the providers in the
\* order of the map range, then the cache, then the database, and with the
\* database read it returns.
SnapshotRead(c) ==
    /\ hphase = "ready"
    /\ sread[c] = "unread"
    /\ c = "cache" => \A p \in HProviders : sread[p] # "unread"
    /\ c = "db" => sread["cache"] # "unread"
    /\ LET read == [sread EXCEPT ![c] = componentGet(hstatus[c])]
       IN  IF c = "db"
           THEN hsnap' = snapshotOf(read) /\ sread' = unread
           ELSE sread' = read /\ UNCHANGED hsnap
    /\ UNCHANGED <<now, hphase, hstatus, hpending, outsideHealth>>

\* NewHealthChecker has built the struct: the provider statuses say unknown,
\* those of cache and database are the zero value.
InitHealth ==
    /\ now = 0
    /\ gatewayIdle
    /\ memInit
    /\ keyInit
    /\ logInit
    /\ chatInit
    /\ rpmInit
    /\ streamInit
    /\ embedInit
    /\ appInit
    /\ recoverInit
    /\ gaugeInit
    /\ handlerInit
    /\ chatLogInit
    /\ lockInit
    /\ hphase = "new"
    /\ hstatus = [c \in Components |-> IF c \in HProviders THEN "unknown" ELSE ""]
    /\ hpending = {}
    /\ sread = unread
    /\ hsnap = NoSnapshot

NextHealth ==
    \/ ProbeStart
    \/ \E c \in Components : \E healthy \in BOOLEAN : ProbeSet(c, healthy)
    \/ NewReturn
    \/ \E c \in Components : SnapshotRead(c)

SpecHealth == InitHealth /\ [][NextHealth]_vars

----------------------------------------------------------------------------
\* The gateway when a provider call may panic: requestWithFailover has no
\* deferred function, so the panic unwinds through it and dispatchChat to
\* the recovery middleware.

\* prov.Request panics: the handler is unwound, recovery answers 500 and
\* the slot is free for the next request.  No breaker call is made.
AttemptPanics(r) ==
    /\ reqs[r].pc = "call"
    /\ reqs' = [reqs EXCEPT ![r] = idleReq]
    /\ UNCHANGED <<now, cfg, breakers, ret, failTimes, outsideGateway>>

NextPanic ==
    \/ Next
    \/ \E r \in Serial : AttemptPanics(r)

\* A provider call under way ends: it returns a response or an error, or it
\* panics; and a handler that can go on does.
SpecPanic ==
    /\ Init
    /\ [][NextPanic]_vars
    /\ WF_vars(\E r \in Serial : \/ AttemptSucceeds(r)
                                 \/ \E err \in Errors : AttemptFails(r, err)
                                 \/ AttemptPanics(r))
    /\ WF_vars(\E r \in Serial : BreakerDeny(r) \/ StartAttempt(r))
    /\ WF_vars(\E r \in Serial : Respond(r))

----------------------------------------------------------------------------
\* The breaker state gauge: requestWithFailover, after a denied Allow and
\* after RecordSuccess and RecordFailure, reads cb.State(name) and hands it
\* to Registry.SetCircuitBreaker.  Two requests run side by side, each with
\* one candidate.

\* A request slot with no failover call in progress.
idleGauge == [pc |-> "idle", name |-> "", read |-> cbClosed]

\* What the gauge actions leave alone.
besideGauge ==
    <<cfg, ret, failTimes, reqs, memVars, keyVars, logVars, chatVars,
      rpmVars, streamVars, embedVars, appVars, recoverVars, healthVars, handlerVars,
      chatLogVars, lockVars>>

\* requestWithFailover asks the breaker: denied, it goes on to export the
\* state; admitted, it calls the provider.
GaugeAllow(r, p) ==
    /\ gq[r].pc = "idle"
    /\ breakers' = store(p, Allow(p))
    /\ gq' = [gq EXCEPT ![r] = [pc |-> IF Allow(p).ret THEN "call" ELSE "read",
                                name |-> p, read |-> cbClosed]]
    /\ UNCHANGED <<now, gauge, besideGauge>>

\* prov.Request returned: RecordSuccess or RecordFailure.
GaugeRecord(r, ok) ==
    /\ gq[r].pc = "call"
    /\ ok \/ belowCap(gq[r].name)
    /\ breakers' = store(gq[r].name,
                         IF ok THEN RecordSuccess(gq[r].name) ELSE RecordFailure(gq[r].name))
    /\ gq' = [gq EXCEPT ![r].pc = "read"]
    /\ UNCHANGED <<now, gauge, besideGauge>>

\* g.cb.State(name), the argument of SetCircuitBreaker.
GaugeRead(r) ==
    /\ gq[r].pc = "read"
    /\ gq' = [gq EXCEPT ![r].pc = "set", ![r].read = State(gq[r].name)]
    /\ UNCHANGED <<now, breakers, gauge, besideGauge>>

\* Registry.SetCircuitBreaker sets the gauge; the failover call is over.
GaugeSet(r) ==
    /\ gq[r].pc = "set"
    /\ gauge' = [gauge EXCEPT ![gq[r].name] = gq[r].read]
    /\ gq' = [gq EXCEPT ![r] = idleGauge]
    /\ UNCHANGED <<now, breakers, besideGauge>>

\* NewGatewayWithOptions: the gauges of the default providers start at the
\* state of their breakers.
InitGauge ==
    /\ now = 0
    /\ gatewayIdle
    /\ memInit
    /\ keyInit
    /\ logInit
    /\ chatInit
    /\ rpmInit
    /\ streamInit
    /\ embedInit
    /\ appInit
    /\ recoverInit
    /\ healthInit
    /\ handlerInit
    /\ chatLogInit
    /\ lockInit
    /\ gauge = [p \in Tracked |-> cbClosed]
    /\ gq = [r \in Reqs |-> idleGauge]

NextGauge ==
    \/ Tick(MaxTime)
    \/ \E r \in Reqs : \E p \in ConcPrimaries : GaugeAllow(r, p)
    \/ \E r \in Reqs : \E ok \in BOOLEAN : GaugeRecord(r, ok)
    \/ \E r \in Reqs : GaugeRead(r)
    \/ \E r \in Reqs : GaugeSet(r)

SpecGauge == InitGauge /\ [][NextGauge]_vars

----------------------------------------------------------------------------
\* dispatchChat around a provider response: the handler increments the
\* in-flight gauge, derives the provider context with its deferred cancel,
\* and for a streaming response hands the channel to writeSSE, whose stream
\* writer runs once the handler has returned.

\* What the stream-handling actions of dispatchChat leave alone.
besideHandler ==
    <<gatewayVars, memVars, keyVars, logVars, chatVars, rpmVars, embedVars, appVars,
      recoverVars, healthVars, gaugeVars, chatLogVars, lockVars>>

\* The stream channel has been drained: closed, empty and read to its end.
drained == sclosed /\ sch = <<>> /\ cpc = "done"

\* The provider context is cancelled by its deadline (ProviderTimeout) or
\* with the inbound request.
CancelBy(cause) ==
    /\ hs.by = ""
    /\ hs.streaming
    /\ hs' = [hs EXCEPT !.by = cause, !.drainedAtCancel = drained]
    /\ cancelled' = TRUE
    /\ UNCHANGED <<now, flavor, produced, ppc, pending, sch, sent, sclosed, scloses,
                   cpc, emitted, inflight, besideHandler>>

\* dispatchChat returns.  Its deferred functions run: cancel() of the
\* provider context, and the metrics function, which leaves the gauge to
\* the stream writer when streaming is set and decrements it otherwise.
\* For a streaming response the stream writer starts.
HandlerReturn ==
    /\ hs.pc = "handler"
    /\ hs' = [hs EXCEPT !.pc = "returned",
                        !.by = IF @ = "" THEN "return" ELSE @,
                        !.drainedAtCancel = IF hs.by = "" THEN drained ELSE @]
    /\ cancelled' = TRUE
    /\ cpc' = IF hs.streaming THEN "range" ELSE cpc
    /\ inflight' = IF hs.streaming THEN inflight ELSE inflight - 1
    /\ UNCHANGED <<now, flavor, produced, ppc, pending, sch, sent, sclosed, scloses,
                   emitted, besideHandler>>

\* writeSSE, after data: [DONE]: onComplete runs, DecInFlight in it, and
\* the stream writer returns.
OnComplete ==
    /\ cpc = "done"
    /\ ~hs.completed
    /\ hs' = [hs EXCEPT !.completed = TRUE]
    /\ inflight' = inflight - 1
    /\ UNCHANGED <<now, streamVars, besideHandler>>

\* requestWithFailover has returned a response to dispatchChat, which has
\* incremented the gauge on entry: a streaming one, its producer goroutine
\* running and the stream writer not yet started, or a plain one.
InitHandler ==
    /\ now = 0
    /\ gatewayIdle
    /\ memInit
    /\ keyInit
    /\ logInit
    /\ chatInit
    /\ rpmInit
    /\ embedInit
    /\ appInit
    /\ recoverInit
    /\ healthInit
    /\ gaugeInit
    /\ chatLogInit
    /\ lockInit
    /\ \E streaming \in BOOLEAN :
          /\ hs = [pc |-> "handler", streaming |-> streaming, by |-> "",
                   drainedAtCancel |-> FALSE, completed |-> FALSE]
          /\ IF streaming
             THEN /\ flavor \in Flavors
                  /\ ppc = "next"
                  /\ cpc = "unstarted"
             ELSE /\ flavor = ""
                  /\ ppc = "exited"
                  /\ cpc = "stopped"
    /\ inflight = 1
    /\ produced = 0
    /\ pending = <<>>
    /\ sch = <<>>
    /\ sent = <<>>
    /\ sclosed = FALSE
    /\ scloses = 0
    /\ cancelled = FALSE
    /\ emitted = <<>>

NextHandler ==
    \/ \E read \in Reads : ProducerNext(read)
    \/ ProducerSend
    \/ \E cause \in {"timeout", "inbound"} : CancelBy(cause)
    \/ HandlerReturn
    \/ ConsumerRecv
    \/ ConsumerDone
    \/ ConsumerStop
    \/ OnComplete

SpecHandler == InitHandler /\ [][NextHandler]_vars

----------------------------------------------------------------------------
\* dispatchChat with its rate limit check and its logRequest calls: the
\* chat gateway above, with the request that the limiter refuses and with
\* the entry each path hands to the request logger.

\* No entry handed to the logger.
NoLogEntry == [emitted |-> FALSE, status |-> 0, cached |-> FALSE, written |-> 0]

\* What the chat-log actions leave alone.
besideChatLog ==
    <<now, gopts, gcache, answered, loggerSet, gatewayVars, memVars, keyVars, logVars,
      rpmVars, streamVars, embedVars, appVars, recoverVars, healthVars, gaugeVars,
      handlerVars, lockVars>>

\* The status dispatchChat passes to logRequest on the path request q took:
\* StatusOK after a cache hit, after the envelope and at the end of a stream,
\* StatusBadGateway after an error of requestWithFailover; 0 on the paths
\* that return without a logRequest call.
logStatus(q) ==
    IF q.resp.xcache = "HIT" THEN 200
    ELSE IF ~q.called THEN 0
    ELSE IF q.lastErr # noErr THEN 502
    ELSE 200

\* logRequest: nothing without a logger, else one entry.
logRequest(q) ==
    IF ~loggerSet \/ logStatus(q) = 0 THEN NoLogEntry
    ELSE [emitted |-> TRUE, status |-> logStatus(q), cached |-> q.resp.xcache = "HIT",
          written |-> q.resp.status]

\* dispatchChat, the limiter refuses the request: 429 and return, before
\* the cache lookup.
RateLimitDeny(r, model, stream) ==
    /\ chat[r].pc = "idle"
    /\ chat' = [chat EXCEPT ![r] = [idleChat EXCEPT !.pc = "done", !.model = model,
                                                    !.stream = stream,
                                                    !.resp = WriteRateLimit]]
    /\ UNCHANGED <<now, gopts, gcache, answered, outsideChat>>

\* The handler returns, its logRequest call made.
FinishLogged(r) ==
    /\ chat[r].pc = "done"
    /\ lastEntry' = logRequest(chat[r])
    /\ chat' = [chat EXCEPT ![r] = idleChat]
    /\ UNCHANGED besideChatLog

\* The gateway built with either cache backend, with or without a request
\* logger, client keys not honoured.
InitChatLog ==
    /\ now = 0
    /\ gatewayIdle
    /\ memInit
    /\ keyInit
    /\ logInit
    /\ rpmInit
    /\ streamInit
    /\ embedInit
    /\ appInit
    /\ recoverInit
    /\ healthInit
    /\ gaugeInit
    /\ handlerInit
    /\ lockInit
    /\ gopts \in [AllowClientAPIKeys : {FALSE}, cache : {"none", "memory", "redis"}]
    /\ chat = [r \in ChatSlots |-> idleChat]
    /\ gcache = [k \in ChatKeys |-> NoEntry]
    /\ answered = [k \in ChatKeys |-> NoAnswer]
    /\ loggerSet \in BOOLEAN
    /\ lastEntry = NoLogEntry

NextChatLog ==
    \/ Tick(MaxTimeChat)
    \/ \E r \in Serial : \E model \in ChatModels : \E stream \in BOOLEAN :
            Receive(r, model, stream, NoHeader)
    \/ \E r \in Serial : \E model \in ChatModels : \E stream \in BOOLEAN :
            RateLimitDeny(r, model, stream)
    \/ \E r \in Serial : ChatGetRead(r)
    \/ \E r \in Serial : ChatGetCheck(r)
    \/ \E r \in Serial : ChatGetDelete(r)
    \/ \E r \in Serial : \E fault \in BOOLEAN : ExactGet(r, fault)
    \/ \E r \in Serial : \E streamed, fault \in BOOLEAN :
            ProviderSucceeds(r, 1, streamed, fault)
    \/ \E r \in Serial : \E lastErr \in FailoverErrors : ProviderFails(r, lastErr)
    \/ \E r \in Serial : FinishLogged(r)

SpecChatLog == InitChatLog /\ [][NextChatLog]_vars

----------------------------------------------------------------------------
\* The locks on the chat path with the in-memory cache: c.mu of MemoryCache,
\* cb.mu of CircuitBreaker and pcb.mu of each provider's breaker.  Two
\* requests run dispatchChat and requestWithFailover while the cleanup
\* goroutine of the cache sweeps.  What a call reads or writes under its
\* lock is modelled above; here each outcome is an input.

\* mu.Lock() returns: no writer and no reader holds the lock.
Lock(m, t) ==
    /\ mu[m] = unlocked
    /\ mu' = [mu EXCEPT ![m].writer = t]

\* mu.Unlock().
Unlock(m, t) ==
    /\ mu[m].writer = t
    /\ mu' = [mu EXCEPT ![m].writer = ""]

\* mu.RLock() returns: no writer holds the lock.
RLock(m, t) ==
    /\ mu[m].writer = ""
    /\ mu' = [mu EXCEPT ![m].readers = @ \cup {t}]

\* mu.RUnlock().
RUnlock(m, t) ==
    /\ t \in mu[m].readers
    /\ mu' = [mu EXCEPT ![m].readers = @ \ {t}]

\* dispatchChat starts: the cache lookup if the request is cache eligible,
\* else requestWithFailover at its first candidate.
Begin(t, eligible) ==
    /\ t \in RequestThreads
    /\ lt[t].pc = "idle"
    /\ lt' = [lt EXCEPT ![t] = [idleThread EXCEPT !.pc = IF eligible THEN "Get" ELSE "Allow",
                                                  !.eligible = eligible]]
    /\ UNCHANGED <<now, mu, outsideLock>>

\* MemoryCache.Get: c.mu.RLock().
GetRLock(t) ==
    /\ lt[t].pc = "Get"
    /\ RLock("c.mu", t)
    /\ lt' = [lt EXCEPT ![t].pc = "Get.read"]
    /\ UNCHANGED <<now, outsideLock>>

\* MemoryCache.Get: c.mu.RUnlock() after the map read.  A miss goes on to
\* requestWithFailover, an expired entry to the lazy delete, a hit to the
\* replay and logRequest.
GetRUnlock(t, found, expired) ==
    /\ lt[t].pc = "Get.read"
    /\ RUnlock("c.mu", t)
    /\ lt' = [lt EXCEPT ![t].pc = IF ~found THEN "Allow"
                                  ELSE IF expired THEN "Get.delete"
                                  ELSE "log"]
    /\ UNCHANGED <<now, outsideLock>>

\* c.mu.Lock() of the lazy delete in Get, of Set, and of evictExpired when
\* the ticker of cleanup fires.
CacheLock(t) ==
    /\ \/ lt[t].pc \in {"Get.delete", "Set"}
       \/ t = "cleanup" /\ lt[t].pc = "idle"
    /\ Lock("c.mu", t)
    /\ lt' = [lt EXCEPT ![t].pc = IF t = "cleanup" THEN "evict.held" ELSE lt[t].pc \o ".held"]
    /\ UNCHANGED <<now, outsideLock>>

\* c.mu.Unlock(): Get returns a miss after its delete, Set returns and
\* dispatchChat goes on to logRequest, evictExpired returns to the loop of
\* cleanup.
CacheUnlock(t) ==
    /\ lt[t].pc \in {"Get.delete.held", "Set.held", "evict.held"}
    /\ Unlock("c.mu", t)
    /\ lt' = [lt EXCEPT ![t].pc = CASE lt[t].pc = "Get.delete.held" -> "Allow"
                                    [] lt[t].pc = "Set.held" -> "log"
                                    [] OTHER -> "idle"]
    /\ UNCHANGED <<now, outsideLock>>

\* Allow, RecordSuccess, RecordFailure and State start with cb.get:
\* cb.mu.RLock().
BreakerGetRLock(t) ==
    /\ lt[t].pc \in {"Allow", "Record", "State"}
    /\ RLock("cb.mu", t)
    /\ lt' = [lt EXCEPT ![t].pc = "get", ![t].op = lt[t].pc]
    /\ UNCHANGED <<now, outsideLock>>

\* cb.get returns: the deferred cb.mu.RUnlock().
BreakerGetRUnlock(t) ==
    /\ lt[t].pc = "get"
    /\ RUnlock("cb.mu", t)
    /\ lt' = [lt EXCEPT ![t].pc = "lock"]
    /\ UNCHANGED <<now, outsideLock>>

\* pcb.mu.Lock() of the breaker operation.
PcbLock(t) ==
    /\ lt[t].pc = "lock"
    /\ Lock(LockCandidates[lt[t].i], t)
    /\ lt' = [lt EXCEPT ![t].pc = "held"]
    /\ UNCHANGED <<now, outsideLock>>

\* Where requestWithFailover stands after the State calls for a candidate:
\* it returns the response of a successful attempt (dispatchChat then
\* stores it if the request is cache eligible, else logs), moves to the
\* next candidate, or has none left and returns the error.
afterState(s) ==
    IF s.ok THEN [s EXCEPT !.pc = IF s.eligible THEN "Set" ELSE "log"]
    ELSE IF s.i < Len(LockCandidates) THEN [s EXCEPT !.pc = "Allow", !.i = s.i + 1]
    ELSE [s EXCEPT !.pc = "log"]

\* The breaker operation returns, granted being the answer of Allow.  After
\* a granted Allow comes prov.Request, after a denial StateLabel and State,
\* after a record call State.
afterOp(s, granted) ==
    CASE s.op = "Allow" /\ granted -> [s EXCEPT !.pc = "call"]
      [] s.op = "Allow" /\ ~granted -> [s EXCEPT !.pc = "State", !.ok = FALSE, !.n = 2]
      [] s.op = "Record" -> [s EXCEPT !.pc = "State", !.n = 1]
      [] OTHER -> IF s.n > 1 THEN [s EXCEPT !.pc = "State", !.n = s.n - 1]
                  ELSE afterState([s EXCEPT !.n = 0])

\* PcbUnlock of an Allow whose lock is released by the record call only.
PcbUnlock_heldUntilRecord(t, granted) ==
    /\ lt[t].pc = "held"
    /\ IF lt[t].op = "Allow" /\ granted
       THEN mu' = mu
       ELSE Unlock(LockCandidates[lt[t].i], t)
    /\ lt' = [lt EXCEPT ![t] = afterOp(lt[t], granted)]
    /\ UNCHANGED <<now, outsideLock>>

\* The deferred pcb.mu.Unlock() as the breaker operation returns.
PcbUnlock(t, granted) ==
    /\ lt[t].pc = "held"
    /\ Unlock(LockCandidates[lt[t].i], t)
    /\ lt' = [lt EXCEPT ![t] = afterOp(lt[t], granted)]
    /\ UNCHANGED <<now, outsideLock>>

\* prov.Request returns, with a response or with an error.
RequestReturns(t, ok) ==
    /\ lt[t].pc = "call"
    /\ lt' = [lt EXCEPT ![t].pc = "Record", ![t].ok = ok]
    /\ UNCHANGED <<now, mu, outsideLock>>

\* logRequest: Logger.Log sends on its channel or drops; dispatchChat
\* returns.
LogSend(t) ==
    /\ lt[t].pc = "log"
    /\ lt' = [lt EXCEPT ![t] = idleThread]
    /\ UNCHANGED <<now, mu, outsideLock>>

InitLock ==
    /\ now = 0
    /\ gatewayIdle
    /\ memInit
    /\ keyInit
    /\ logInit
    /\ chatInit
    /\ rpmInit
    /\ streamInit
    /\ embedInit
    /\ appInit
    /\ recoverInit
    /\ healthInit
    /\ gaugeInit
    /\ handlerInit
    /\ chatLogInit
    /\ mu = [m \in Mutexes |-> unlocked]
    /\ lt = [t \in Threads |-> idleThread]

NextLock ==
    \/ \E t \in RequestThreads : \E eligible \in BOOLEAN : Begin(t, eligible)
    \/ \E t \in RequestThreads : GetRLock(t)
    \/ \E t \in RequestThreads : \E found, expired \in BOOLEAN : GetRUnlock(t, found, expired)
    \/ \E t \in Threads : CacheLock(t)
    \/ \E t \in Threads : CacheUnlock(t)
    \/ \E t \in RequestThreads : BreakerGetRLock(t)
    \/ \E t \in RequestThreads : BreakerGetRUnlock(t)
    \/ \E t \in RequestThreads : PcbLock(t)
    \/ \E t \in RequestThreads : \E granted \in BOOLEAN : PcbUnlock(t, granted)
    \/ \E t \in RequestThreads : \E ok \in BOOLEAN : RequestReturns(t, ok)
    \/ \E t \in RequestThreads : LogSend(t)

SpecLock == InitLock /\ [][NextLock]_vars

----------------------------------------------------------------------------
\* Claims about the breaker (checked under SpecCB).

\* The last errorThreshold(cfg) failures recorded for p, with no success in
\* between, lie within a span shorter than timeWindow(cfg).
thresholdFailuresInWindow(p) ==
    /\ Len(failTimes[p]) = errorThreshold(cfg)
    /\ failTimes[p][Len(failTimes[p])] - failTimes[p][1] < timeWindow(cfg)

\* C1: once ErrorThreshold RecordFailure calls with no RecordSuccess in
\* between fall within one TimeWindow, the breaker is Open and Allow returns
\* false for as long as HalfOpenTimeout has not elapsed since the last of them.
C1_OpensAfterThreshold ==
    \A p \in Tracked :
        (/\ thresholdFailuresInWindow(p)
         /\ now - failTimes[p][Len(failTimes[p])] < halfOpenTimeout(cfg))
        => (breakers[p].state = cbOpen /\ ~Allow(p).ret)

\* C2: an Allow on an Open breaker whose HalfOpenTimeout has elapsed returns
\* true and leaves the breaker HalfOpen with the probe in flight; from then on
\* every Allow returns false and changes nothing, and only a RecordSuccess or
\* RecordFailure for that provider changes the breaker.
C2_SingleProbe ==
    [][\A p \in Tracked :
        LET pcb == breakers[p] IN
        /\ (CallAllow(p) /\ pcb.state = cbOpen
                /\ now - pcb.openedAt >= halfOpenTimeout(cfg))
           => (ret'.value = TRUE /\ breakers'[p].state = cbHalfOpen
                /\ breakers'[p].probeInflight)
        /\ (CallAllow(p) /\ pcb.state = cbHalfOpen /\ pcb.probeInflight)
           => (ret'.value = FALSE /\ breakers'[p] = pcb)
        /\ (pcb.state = cbHalfOpen /\ pcb.probeInflight /\ breakers'[p] # pcb)
           => (CallRecordSuccess(p) \/ CallRecordFailure(p))
    ]_vars

\* C2 witness: a second Allow was refused while the probe is in flight.
C2_Witness ==
    /\ ret = [op |-> "Allow", provider |-> "openai", value |-> FALSE]
    /\ breakers["openai"].state = cbHalfOpen
    /\ breakers["openai"].probeInflight

\* C4: RecordFailure on a HalfOpen breaker leaves it Open with
\* openedAt = now and no probe in flight.
C4_HalfOpenFailureReopens ==
    [][\A p \in Tracked :
        (CallRecordFailure(p) /\ breakers[p].state = cbHalfOpen)
        => (/\ breakers'[p].state = cbOpen
            /\ breakers'[p].openedAt = now
            /\ ~breakers'[p].probeInflight)
    ]_vars

\* C5: after RecordSuccess for a tracked provider the breaker is Closed with
\* errorCount 0 and no probe in flight, and the next Allow returns true.
C5_SuccessResets ==
    [][\A p \in Tracked :
        CallRecordSuccess(p)
        => (/\ breakers'[p].state = cbClosed
            /\ breakers'[p].errorCount = 0
            /\ ~breakers'[p].probeInflight
            /\ Allow(p)'.ret)
    ]_vars

\* C5 witness: a breaker that was tripped at some time is Closed again right
\* after a RecordSuccess.
C5_Witness ==
    /\ ret.op = "RecordSuccess" /\ ret.provider = "openai"
    /\ breakers["openai"].openedAt > 0
    /\ breakers["openai"].state = cbClosed

----------------------------------------------------------------------------
\* Claims about the failover loop (checked under Spec; C3 under SpecConc).

\* The candidate list as specified: the primary, then the default fallback
\* order with the primary removed.
specCandidates(primary) ==
    <<primary>> \o SelectSeq(DefaultFallbackOrder, LAMBDA n : n # primary)

\* Position of provider x in the specified candidate list of `primary`, 0 if absent.
specPos(primary, x) ==
    LET c == specCandidates(primary) IN
    IF \E i \in 1..Len(c) : c[i] = x
    THEN CHOOSE i \in 1..Len(c) : c[i] = x
    ELSE 0

\* Index of the first configured candidate after position i, 0 if there is none.
nextConfigured(primary, i) ==
    LET c == specCandidates(primary)
        later == {j \in (i + 1)..Len(c) : c[j] \in Registered}
    IN IF later = {} THEN 0 ELSE CHOOSE j \in later : \A k \in later : j <= k

\* The errors the retryability policy names as retryable / as not retryable.
specRetryable(err) ==
    \/ err = errTimeout
    \/ err = errUnknown
    \/ err.kind = "status" /\ err.status \in 500..599

specClientError(err) == err.kind = "status" /\ err.status \in 400..499

\* The requests whose attempt in flight was admitted as a half-open probe of p.
outstandingProbes(p) ==
    {r \in Reqs : reqs[r].pc = "call" /\ reqs[r].asProbe /\ name(r) = p}

\* C3: at most one request admitted as a half-open probe of a provider is
\* outstanding at any time.
C3_OneProbeOutstanding ==
    \A p \in Tracked : Cardinality(outstandingProbes(p)) <= 1

\* C6: a request makes at most MaxRetries provider calls, the attempt count
\* is the number of calls that returned, and the loop gives up with a
\* retryable cause only when the budget is spent or no configured candidate
\* is left, so skipped candidates cost nothing.
C6_BudgetInv ==
    \A r \in Reqs :
        /\ Len(reqs[r].calls) <= maxRetries
        /\ reqs[r].attempts <= maxRetries
        /\ reqs[r].attempts = Len(reqs[r].calls) - (IF reqs[r].pc = "call" THEN 1 ELSE 0)

C6_GiveUpStep ==
    \A r \in Reqs :
        LET q == reqs[r] IN
        (q.pc \in {"loop", "call"} /\ reqs'[r].pc = "done" /\ ~reqs'[r].result.ok)
        => \/ specClientError(reqs'[r].result.cause)
           \/ reqs'[r].attempts = maxRetries
           \/ nextConfigured(q.primary, q.idx) = 0

C6_MaxRetries == []C6_BudgetInv /\ [][C6_GiveUpStep]_vars

\* C6 witness: both calls of the budget were made although two candidates in
\* between were skipped (one refused by its breaker, one not configured).
C6_Witness ==
    /\ reqs[1].pc = "done"
    /\ reqs[1].attempts = maxRetries
    /\ reqs[1].calls = <<"deepseek", "gemini">>

\* C7: an attempt that fails with a 4xx status ends the loop: the call returns
\* an error with that cause, and a returned request makes no further call.
C7_ClientErrorStops ==
    [][\A r \in Reqs :
        /\ (reqs[r].pc = "call" /\ reqs'[r] # reqs[r] /\ specClientError(reqs'[r].err))
             => (/\ reqs'[r].pc = "done"
                 /\ ~reqs'[r].result.ok
                 /\ reqs'[r].result.cause = reqs'[r].err
                 /\ reqs'[r].calls = reqs[r].calls)
        /\ (reqs[r].pc = "done" /\ reqs'[r] # reqs[r]) => reqs'[r] = idleReq
    ]_vars

\* C7 witness: the primary answered 401 and the configured fallback was not called.
C7_Witness ==
    /\ reqs[1].pc = "done"
    /\ reqs[1].err = statusErr(401)
    /\ reqs[1].result.cause = statusErr(401)
    /\ reqs[1].calls = <<"openai">>
    /\ breakers["gemini"].state = cbClosed

\* C8: after a retryable failure with budget left the loop goes on to the next
\* configured candidate; a candidate its breaker admits is called; a call that
\* succeeds is returned with the name of the provider that served it.
C8_RetryableFailsOver ==
    [][\A r \in Reqs :
        LET q == reqs[r] IN
        /\ (/\ q.pc = "call" /\ reqs'[r] # q /\ specRetryable(reqs'[r].err)
            /\ q.attempts + 1 < maxRetries
            /\ nextConfigured(q.primary, q.idx) # 0)
             => (/\ reqs'[r].pc = "loop"
                 /\ reqs'[r].idx = nextConfigured(q.primary, q.idx)
                 /\ reqs'[r].lastErr = reqs'[r].err)
        /\ (q.pc = "loop" /\ reqs'[r] # q /\ Allow(name(r)).ret)
             => (/\ reqs'[r].pc = "call"
                 /\ reqs'[r].calls = Append(q.calls, specCandidates(q.primary)[q.idx]))
        /\ (q.pc = "call" /\ reqs'[r] # q /\ reqs'[r].err = noErr)
             => reqs'[r].result =
                    [ok |-> TRUE, provider |-> q.calls[Len(q.calls)], cause |-> noErr]
    ]_vars

\* C8 witness: the primary failed with a retryable error and the fallback's
\* response was returned under the fallback's name.
C8_Witness ==
    /\ reqs[1].pc = "done"
    /\ reqs[1].result.ok
    /\ reqs[1].result.provider = "gemini"
    /\ reqs[1].calls = <<"openai", "gemini">>

\* C9: the providers a request calls follow the order of the specified
\* candidate list, none is called twice, and a call starts only after the
\* previous one has returned.
C9_OrderedAttempts ==
    \A r \in Reqs :
        LET q == reqs[r] IN
        /\ \A i \in 1..Len(q.calls) : specPos(q.primary, q.calls[i]) > 0
        /\ \A i, j \in 1..Len(q.calls) :
               i < j => specPos(q.primary, q.calls[i]) < specPos(q.primary, q.calls[j])
        /\ q.pc = "call" =>
               /\ q.idx <= Len(specCandidates(q.primary))
               /\ q.calls[Len(q.calls)] = specCandidates(q.primary)[q.idx]
        /\ Len(q.calls) - q.attempts = (IF q.pc = "call" THEN 1 ELSE 0)

\* C9 witness: the unlisted primary was called first, then the head of the
\* default order.
C9_Witness ==
    /\ reqs[1].pc = "call"
    /\ reqs[1].primary = "deepseek"
    /\ reqs[1].calls = <<"deepseek", "openai">>

\* C10: an attempt that follows an attempt ended by a timeout starts before
\* the deadline of the context it is given.
C10_FreshDeadline ==
    [][\A r \in Reqs :
        (StartAttempt(r) /\ reqs[r].lastErr = errTimeout) => now < reqs[r].deadline
    ]_vars

----------------------------------------------------------------------------
\* Claims about the in-process cache (checked under SpecMem).

\* C13: a Get of key k issued after Set(k, v, t) has returned and returning
\* before t has elapsed, with no Delete or later Set of k in between, returns
\* (v, true), whatever other Gets and sweeps run concurrently.
C13_GetAfterSet ==
    [][\A g \in MemCallers :
        LET k == mops[g].key IN
        (/\ mops[g].pc \in {"got", "del"} /\ mops'[g].pc = "idle"
         /\ mops[g].fresh
         /\ now < lastSet[k].until)
        => (mret'.ok /\ mret'.data = lastSet[k].data)
    ]_vars

\* C14: a Get that returns a hit returns an entry whose expiry time has not
\* passed, and a Get that found its entry expired returns a miss, swept or not.
C14_NoExpiredHit ==
    [][\A g \in MemCallers :
        /\ (mops[g].pc = "got" /\ mops'[g].pc = "idle" /\ mret'.ok)
             => (/\ mops[g].item.present
                 /\ ~(now > mops[g].item.expiresAt)
                 /\ mret'.data = mops[g].item.data)
        /\ (mops[g].pc = "del" /\ mops'[g].pc = "idle") => ~mret'.ok
    ]_vars

\* C14 witness: a Get has found its entry expired while the entry is still in
\* the map and no sweep is under way.
C14_Witness ==
    \E g \in MemCallers :
        /\ mops[g].pc = "del"
        /\ items[mops[g].key] = mops[g].item
        /\ now > mops[g].item.expiresAt
        /\ mops[Cleanup].pc = "idle"

----------------------------------------------------------------------------
\* Claims about the cache key (checked under SpecKey).

\* The fields of a request the claim names; the provider is a function of the model.
namedFields(req) ==
    <<req.Model, req.Temperature, req.MaxTokens, req.WorkspaceID, req.APIKeyID,
      req.Messages, resolveProvider(req.Model)>>

\* The same with the temperature at the two decimals the key format prints.
printedFields(req) ==
    <<req.Model, fmtTemperature(req.Temperature), req.MaxTokens, req.WorkspaceID,
      req.APIKeyID, req.Messages, resolveProvider(req.Model)>>

\* C17 as stated: two requests that differ in any one of model, temperature,
\* max_tokens, workspace_id, api_key_id, messages or provider get different
\* cache keys.
C17_AnyDifferenceDiffers ==
    kout # <<>> => (namedFields(kin[1]) # namedFields(kin[2]) => kout[1] # kout[2])

\* C17 amended: two requests get the same cache key exactly when they agree
\* in model, temperature printed with two decimals, max_tokens, workspace_id,
\* api_key_id, messages and provider.
C17_KeyOfPrintedFields ==
    kout # <<>> => (kout[1] = kout[2] <=> printedFields(kin[1]) = printedFields(kin[2]))

\* C17 witness: two requests that differ only in the api key id got different
\* keys.
C17_Witness ==
    /\ kout # <<>>
    /\ kin[1].APIKeyID # kin[2].APIKeyID
    /\ [kin[1] EXCEPT !.APIKeyID = kin[2].APIKeyID] = kin[2]
    /\ kout[1] # kout[2]

----------------------------------------------------------------------------
\* Claims about the request logger (checked under SpecLog).

\* The entries run has taken from the channel.
taken == Len(batch) + Len(written)

\* C20 as stated: Log never blocks, and once a burst of N > capacity entries
\* has been logged the dropped counter has increased by exactly N - capacity.
C20_DropsExactly ==
    /\ logged < MaxLogged => ENABLED Log
    /\ (logged = MaxLogged /\ MaxLogged > channelBuffer)
          => droppedLogs = MaxLogged - channelBuffer

\* C20 amended: Log never blocks; after the first n entries of a burst that
\* starts on an empty queue the dropped counter is at most n - capacity (0 for
\* n below the capacity), and it is exactly that when run has taken no entry
\* from the queue; each entry is in the queue, taken by run or counted as
\* dropped.
C20_DropsAtMost ==
    LET excess == IF logged > channelBuffer THEN logged - channelBuffer ELSE 0 IN
    /\ logged < MaxLogged => ENABLED Log
    /\ droppedLogs <= excess
    /\ taken = 0 => droppedLogs = excess
    /\ logged = droppedLogs + Len(lch) + taken
    /\ Len(lch) <= channelBuffer

\* C20 witness: the whole burst was logged with run taking nothing, and the
\* entries beyond the capacity were dropped.
C20_Witness ==
    /\ logged = MaxLogged
    /\ taken = 0
    /\ Len(lch) = channelBuffer
    /\ droppedLogs = MaxLogged - channelBuffer
    /\ droppedLogs > 0

----------------------------------------------------------------------------
\* Claims about dispatchChat and its cache (checked under SpecChat; C12
\* under SpecChatConc).

\* C11: a chat request whose provider attempt ended with a status-bearing
\* error of upstream status 429 is answered 429 with Retry-After: 60, type
\* rate_limit_error and code rate_limit_exceeded.
C11_Upstream429 ==
    \A r \in ChatSlots :
        (chat[r].pc = "done" /\ chat[r].lastErr = statusErr(429))
        => (/\ chat[r].resp.status = 429
            /\ chat[r].resp.retryAfter = "60"
            /\ chat[r].resp.type = "rate_limit_error"
            /\ chat[r].resp.code = "rate_limit_exceeded")

\* C12: a cache-eligible request that arrives after an identical request was
\* answered 200 with X-Cache: MISS, and is answered within the cache TTL of
\* that answer, is answered 200 with X-Cache: HIT and the body of a MISS
\* answer, without a provider call.
C12_HitAfterMiss ==
    [][\A r \in ChatSlots :
        LET q == chat[r] IN
        (/\ q.pc \notin {"idle", "done"} /\ chat'[r].pc = "done"
         /\ q.after.valid
         /\ now - q.after.at < cacheTTL)
        => (/\ chat'[r].resp.status = 200
            /\ chat'[r].resp.xcache = "HIT"
            /\ ~chat'[r].called
            /\ chat'[r].resp.body \in {q.after.body, answered[keyOf(r)].body})
    ]_vars

\* C15: a request answered as an SSE stream has read and written no cache
\* entry and its response has no X-Cache header.
C15_StreamBypassesCache ==
    \A r \in ChatSlots :
        (chat[r].pc = "done" /\ chat[r].resp.sse)
        => (~chat[r].read /\ ~chat[r].wrote /\ chat[r].resp.xcache = "")

\* C15 witness: a stream was passed through by a gateway with a cache, for a
\* model that is not excluded.
C15_Witness ==
    /\ chat[1].pc = "done"
    /\ chat[1].resp.sse
    /\ gopts.cache # "none"
    /\ ~Matches(chat[1].model)

\* The cache keys of requests for a model.
keysOfModel(model) ==
    {buildCacheKey(proxyReqOf(model, FALSE, [token |-> "", tokenID |-> id])) :
        id \in {"", "id-A", "id-B"}}

\* C16: a request for a model the exclusion list matches reads and writes no
\* cache entry, is not answered X-Cache: HIT and is answered only after a
\* provider call; the cache holds no entry under a key of such a model.
C16_ExcludedNeverCached ==
    /\ \A r \in ChatSlots :
          (chat[r].pc # "idle" /\ chat[r].model \in {"o1", "claude-3-5-sonnet"})
          => (/\ ~chat[r].read /\ ~chat[r].wrote
              /\ chat[r].resp.xcache # "HIT"
              /\ chat[r].pc = "done" => chat[r].called)
    /\ \A model \in {"o1", "claude-3-5-sonnet"} :
          \A k \in keysOfModel(model) : ~gcache[k].present

\* C16 witness: a non-streaming request for the model excluded by the pattern
\* was answered 200 by a provider, by a gateway with a cache.
C16_Witness ==
    /\ chat[1].pc = "done"
    /\ chat[1].model = "claude-3-5-sonnet"
    /\ ~chat[1].stream
    /\ gopts.cache # "none"
    /\ chat[1].called
    /\ chat[1].resp.status = 200

\* The bearer token an Authorization header carries, "" if none.
bearerOf(header) == IF header.scheme \in {"Bearer", "bearer"} THEN header.token ELSE ""

\* C18: with client-key forwarding enabled a cache hit serves a response
\* that was produced for the bearer token of the request it answers (or for
\* none, if it has none); with forwarding disabled the request sent upstream
\* carries no key and the cache key is that of the request without its
\* Authorization header.
C18_KeyPartition ==
    \A r \in ChatSlots :
        LET q == chat[r] IN
        /\ (gopts.AllowClientAPIKeys /\ q.pc = "done" /\ q.resp.xcache = "HIT")
             => q.resp.body.apiKey = bearerOf(q.header)
        /\ (gopts.AllowClientAPIKeys /\ q.pc # "idle") => q.apiKey = bearerOf(q.header)
        /\ (~gopts.AllowClientAPIKeys /\ q.pc # "idle")
             => (/\ q.apiKey = ""
                 /\ keyOf(r) = buildCacheKey(proxyReqOf(q.model, q.stream,
                                                         [token |-> "", tokenID |-> ""]))
                 /\ q.resp.body.apiKey = "")

\* C18 witness: with forwarding enabled a request with token tB was served
\* its own cached response while the cache also holds a response for tA.
C18_Witness ==
    /\ gopts.AllowClientAPIKeys
    /\ chat[1].pc = "done"
    /\ chat[1].resp.xcache = "HIT"
    /\ bearerOf(chat[1].header) = "tB"
    /\ chat[1].resp.body.apiKey = "tB"
    /\ \E k \in ChatKeys : gcache[k].present /\ gcache[k].data.apiKey = "tA"

\* C19: a request whose cache Get or Set met a fault of the remote backend
\* goes on to the provider and is answered as the provider's result says:
\* no hit is served from the failed Get, a failed Set leaves the 200 with
\* X-Cache: MISS in place, and no other error is answered.
C19_RemoteFaultInvisible ==
    \A r \in ChatSlots :
        LET q == chat[r] IN
        /\ q.getFault => (/\ q.pc \in {"provider", "done"}
                          /\ q.resp.xcache # "HIT"
                          /\ q.pc = "done" => q.called)
        /\ q.setFault => (q.resp.status = 200 /\ q.resp.xcache = "MISS")
        /\ (q.pc = "done" /\ q.getFault /\ q.lastErr # noErr)
             => q.resp = handleProviderError(failoverError(q.lastErr))
        /\ (q.pc = "done" /\ q.getFault /\ q.lastErr = noErr) => q.resp.status = 200

\* C19 witness: both the Get and the Set of a request failed and it was
\* answered 200 by the provider.
C19_Witness ==
    /\ chat[1].pc = "done"
    /\ chat[1].getFault
    /\ chat[1].setFault
    /\ chat[1].resp.status = 200
    /\ chat[1].resp.xcache = "MISS"

----------------------------------------------------------------------------
\* Claims about Logger.Close (checked under SpecLog).

\* How often run has written an entry.
timesWritten(e) == Cardinality({i \in 1..Len(written) : written[i] = e})

----------------------------------------------------------------------------
\* Claims about the rate limiter (checked under SpecRPM).

\* The number of admitted requests stamped within the window that starts at t.
RECURSIVE admittedFrom(_, _)
admittedFrom(t, n) ==
    IF n = 0 \/ t > MaxTimeRPM THEN 0 ELSE admitted[t] + admittedFrom(t + 1, n - 1)

\* C22: while Redis has answered every check, the requests admitted within
\* any window of the limiter's length number at most rpmLimit, and every
\* request that was not admitted was answered 429 with Retry-After: 60.
C22_AtMostLimit ==
    /\ outages = 0 => \A t \in 0..MaxTimeRPM : admittedFrom(t, window) <= rpmLimit
    /\ \A r \in RPMSlots :
          (rl[r].pc = "done" /\ ~rl[r].allowed) =>
              /\ rl[r].resp.status = 429
              /\ rl[r].resp.retryAfter = "60"

\* C23: a request whose check found Redis unreachable is admitted and goes
\* on to the provider as a request does when no limiter is configured: it is
\* not answered by the limiter.
C23_FailOpen ==
    \A r \in RPMSlots :
        (rl[r].pc = "done" /\ rl[r].fault) =>
            /\ rl[r].allowed
            /\ rl[r].resp = NoResponse

\* C23 witness: Redis was unreachable for a request that arrived when the
\* window was full, and the request was admitted.
C23_Witness ==
    /\ rl[1].pc = "done"
    /\ rl[1].fault
    /\ rl[1].allowed
    /\ Cardinality(keyAt(now)) >= rpmLimit
    /\ \A m \in keyAt(now) : score(m) > rl[1].stamp - window

----------------------------------------------------------------------------
\* Claims about streaming responses (C24 checked under SpecStream, C25 under
\* SpecStreamFair).

\* The chunks of the data events written so far, in the order written.
RECURSIVE chunksOf(_)
chunksOf(events) ==
    IF events = <<>> THEN <<>>
    ELSE IF Head(events).done THEN chunksOf(Tail(events))
    ELSE <<Head(events).chunk>> \o chunksOf(Tail(events))

\* The positions of data: [DONE] among the events written.
donesIn(events) == {i \in 1..Len(events) : events[i].done}

C25_ProducerCloses ==
    /\ [](scloses <= 1)
    /\ <>(ppc = "exited" /\ sclosed /\ scloses = 1)

----------------------------------------------------------------------------
\* Claims about dispatchEmbeddings (checked under SpecEmbed).

\* C26: for an embeddings request Embed is invoked at most once and only on
\* the provider resolved from the model name; a resolved provider without the
\* Embedding capability gives 400; and for one registry the same model always
\* leads to the same Embed calls.
C26_OnlyResolvedProvider ==
    /\ Len(emb.calls) <= 1
    /\ \A i \in 1..Len(emb.calls) : emb.calls[i] = emb.resolved
    /\ (emb.resolved # "" /\ emb.resolved \in eregistry /\ emb.resolved \notin Embedders)
          => (emb.resp.status = 400 /\ emb.calls = <<>>)
    /\ \A m \in EmbedModels : Cardinality(outcomes[m]) <= 1

----------------------------------------------------------------------------
\* Claims about the life of the process (C27 and C28 checked under
\* SpecAppFair, C29 under SpecApp).

\* C27: once the root context is cancelled by the shutdown signal, Run
\* eventually has stopped the HTTP server and returned.
C27_RunReturns ==
    rootDone ~> (srv # "listening" /\ runpc = "returned")

\* C28: once the root context is cancelled, the cache eviction loop and the
\* health probe loop eventually have exited (the request logger is not wired,
\* so its batcher is not running); a process that is gone has no loops left.
C28_TasksExit ==
    rootDone ~> (proc # "running" \/ (cleanuppc # "running" /\ healthpc # "running"))

\* C29: whatever the number of App.Close calls and their interleaving, no
\* call panics, no resource is released twice, and once a call has returned
\* every resource New had set up has been released exactly once.
C29_CloseIdempotent ==
    /\ proc # "panicked"
    /\ \A i \in 1..Len(Resources) : released[Resources[i]] <= 1
    /\ (\E c \in AppCallers : callers[c].pc = "done") =>
          \A i \in 1..Len(Resources) :
             released[Resources[i]] = (IF newApp(cfgMode, released["rdb"] = 1)[Resources[i]] THEN 1 ELSE 0)

----------------------------------------------------------------------------
\* Claims about the recovery middleware (checked under SpecRecover).

\* C30: the process keeps running whatever the handlers do; a request whose
\* handling panicked is answered 500 with error code internal_error, and
\* every other request, those after a panic included, gets the response its
\* handler wrote.
C30_PanicRecovered ==
    /\ server = "running"
    /\ \A i \in 1..Len(hlog) :
          IF hlog[i].run.panicked
          THEN hlog[i].resp.status = 500 /\ hlog[i].resp.code = "internal_error"
          ELSE hlog[i].resp = hlog[i].run.resp

\* C30 witness: a request whose handler panicked after writing part of a
\* 200 response got 500 internal_error, and the next request got its 200.
C30_Witness ==
    /\ Len(hlog) >= 2
    /\ hlog[1].run.panicked /\ hlog[1].run.resp.status = 200
    /\ hlog[1].resp.status = 500 /\ hlog[1].resp.code = "internal_error"
    /\ ~hlog[2].run.panicked /\ hlog[2].resp.status = 200

----------------------------------------------------------------------------
\* Claims about the health checker (checked under SpecHealth).

\* C31: no snapshot returned reports unknown for a component, and the
\* overall status of a snapshot is degraded exactly if a provider status it
\* reports is not ok or the database status it reports is down, ok
\* otherwise.
C31_SnapshotConsistent ==
    hsnap # NoSnapshot =>
       /\ \A p \in HProviders : hsnap.providers[p] # "unknown"
       /\ hsnap.cache # "unknown"
       /\ hsnap.db # "unknown"
       /\ hsnap.status \in {"ok", "degraded"}
       /\ (hsnap.status = "degraded") <=>
             ((\E p \in HProviders : hsnap.providers[p] # "ok") \/ hsnap.db = "down")

\* C31 witness: a snapshot taken while a probe was under way reports one
\* provider ok and the other degraded, and is degraded overall.
C31_Witness ==
    /\ hsnap.status = "degraded"
    /\ hsnap.providers["openai"] = "ok"
    /\ hsnap.providers["anthropic"] = "degraded"
    /\ hpending # {}

----------------------------------------------------------------------------
\* Further claims about the breaker driven through its API (checked under
\* SpecCB).

\* C32: an Allow call for a name the breaker does not track returns true in
\* every state, and no Allow, RecordSuccess or RecordFailure call for such a
\* name changes the providerCB of any provider.
C32_UnknownProviderNoop ==
    /\ []((ret.op = "Allow" /\ ret.provider \notin Tracked) => ret.value)
    /\ [][(ret'.op \in {"Allow", "RecordSuccess", "RecordFailure"}
           /\ ret'.provider \notin Tracked /\ now' = now)
             => breakers' = breakers]_vars

\* C32 witness: RecordFailure was called for an untracked name while the
\* breaker of a tracked provider was Open with failures counted.
C32_Witness ==
    /\ ret.op = "RecordFailure"
    /\ ret.provider = "deepseek"
    /\ breakers["openai"].state = cbOpen
    /\ breakers["openai"].errorCount > 0

----------------------------------------------------------------------------
\* Claims about the breaker when provider calls may panic (checked under
\* SpecPanic).

\* C34: a breaker that is HalfOpen with its probe in flight eventually is
\* no longer so: the probe is followed by RecordSuccess or RecordFailure,
\* both of which clear probeInflight.
C34_ProbeResolves ==
    \A p \in Tracked :
       (breakers[p].state = cbHalfOpen /\ breakers[p].probeInflight)
          ~> ~(breakers[p].state = cbHalfOpen /\ breakers[p].probeInflight)

----------------------------------------------------------------------------
\* Claims about the breaker state gauge (checked under SpecGauge).

\* C35: whenever no failover call is in progress, the gauge of every
\* provider equals the state of its breaker.
C35_GaugeMatchesState ==
    (\A r \in Reqs : gq[r].pc = "idle") => \A p \in Tracked : gauge[p] = State(p)

----------------------------------------------------------------------------
\* Claims about dispatchChat around a provider response (checked under
\* SpecHandler).

\* C33: the provider context of a streaming request is cancelled only by
\* ProviderTimeout, by the inbound request, or once the stream channel has
\* been drained.
C33_CtxOutlivesHandler ==
    (hs.streaming /\ cancelled) =>
        (hs.by \in {"timeout", "inbound"} \/ hs.drainedAtCancel)

\* The request is being handled: the handler has not returned, or the
\* stream writer of its response has not.
active ==
    \/ hs.pc = "handler"
    \/ hs.streaming /\ (cpc = "range" \/ (cpc = "done" /\ ~hs.completed))

\* C39: the in-flight gauge is 1 while the request is being handled and 0
\* once it is not.
C39_InFlightMatches ==
    inflight = IF active THEN 1 ELSE 0

----------------------------------------------------------------------------
\* Claims about the cache writes and the log entries of dispatchChat
\* (checked under SpecChatLog).

\* C36: a step that stores an entry under a cache key is the step in which
\* a request with that key, not a stream, gets its 200 with X-Cache: MISS
\* from a provider response, and what is stored is the body written; no
\* other step (a provider error, a refusal by the limiter, a cache hit, the
\* pass-through of a stream) stores anything.
C36_CacheWrittenOnSuccessOnly ==
    [][\A k \in ChatKeys :
          (gcache'[k] # gcache[k] /\ gcache'[k].present) =>
             \E r \in Serial :
                /\ chat[r].pc = "provider"
                /\ chat'[r].pc = "done"
                /\ k = keyOf(r)
                /\ ~chat[r].stream
                /\ chat'[r].lastErr = noErr
                /\ chat'[r].resp.status = 200
                /\ chat'[r].resp.xcache = "MISS"
                /\ ~chat'[r].resp.sse
                /\ gcache'[k].data = chat'[r].resp.body]_vars

\* C36 witness: a response was stored, and later requests were refused by
\* the limiter, failed at the provider or were served from the cache while
\* the stored entry stayed as it was.
C36_Witness ==
    /\ \E k \in ChatKeys : gcache[k].present /\ answered[k].valid
                              /\ gcache[k].data = answered[k].body
    /\ chat[1].pc = "done"
    /\ chat[1].resp.status = 429
    /\ ~chat[1].called

\* C37: the entry handed to the logger carries the status written to the
\* client for that request.
C37_LoggedStatusIsWritten ==
    lastEntry.emitted => lastEntry.status = lastEntry.written

----------------------------------------------------------------------------
\* Claims about the request logger under fair scheduling of run (checked
\* under SpecLogFair).

\* Entry e has been written by run.
isWritten(e) == e \in queued(written)

\* Entry e waits in the channel or in the batch of run.
isPending(e) == e \in queued(lch) \/ e \in queued(batch)

\* C38: every entry passed to Log is eventually written by run or counted in
\* DroppedLogs, whenever Log is called.  An entry that is neither pending
\* nor written is one that Log counted as dropped.
C38_LoggedOrDropped ==
    \A e \in 1..MaxLogged : (logged >= e) ~> (isWritten(e) \/ ~isPending(e))

----------------------------------------------------------------------------
\* Claims about the locks (checked under SpecLock).

\* The locks goroutine t holds.
heldBy(t) == {m \in Mutexes : mu[m].writer = t \/ t \in mu[m].readers}

\* The lock goroutine t is about to take, if any.
wanted(t) ==
    CASE lt[t].pc \in {"Get", "Get.delete", "Set"} -> {"c.mu"}
      [] lt[t].pc \in {"Allow", "Record", "State"} -> {"cb.mu"}
      [] lt[t].pc = "lock" -> {LockCandidates[lt[t].i]}
      [] OTHER -> {}

\* C40: a goroutine holds no breaker or cache lock while its provider
\* Request is in flight or while it sends on the logger's channel, it never
\* holds two of these locks at once, and whoever holds a lock another
\* goroutine waits for is not itself waiting for a lock.
C40_NoLockAcrossCall ==
    /\ \A t \in Threads : lt[t].pc \in {"call", "log"} => heldBy(t) = {}
    /\ \A t \in Threads : Cardinality(heldBy(t)) <= 1
    /\ \A t, u \in Threads : (wanted(t) \cap heldBy(u) # {}) => wanted(u) = {}

\* One request has its provider Request in flight while the other holds
\* pcb.mu of the same provider.
C40_Witness ==
    \E t, u \in RequestThreads :
        /\ lt[t].pc = "call"
        /\ lt[u].pc = "held"
        /\ lt[u].i = lt[t].i
        /\ mu[LockCandidates[lt[u].i]].writer = u

====
